---- MODULE Spec2Model ----
(***************************************************************************)
(* RecorderReader.read of prismio (src/prismio/readers/recorder_reader.py):*)
(* the replay of a Recorder trace through per-rank descriptor tables and   *)
(* one end-of-file table, producing one dataframe row per raw record.      *)
(*                                                                         *)
(* Python values are modelled as follows.  A str is a TLA+ string; where   *)
(* the code looks inside a string (`'seek' in func_name`, int(arg)) the    *)
(* model looks at its characters through Chars.  A dict is a function      *)
(* whose DOMAIN is the set of keys.  A column value that may be None, an   *)
(* int or a str is tagged: None, PyInt(n), PyStr(s).  An exception that    *)
(* leaves read() is pc = "raised", with the locals as they were at the     *)
(* raise.                                                                  *)
(***************************************************************************)
EXTENDS Integers, Sequences, FiniteSets, TLC

None == <<"None">>
PyInt(n) == <<"int", n>>
PyStr(s) == <<"str", s>>

(***************************************************************************)
(* Bounds of the model.                                                    *)
(***************************************************************************)
\* number of records replayed in one run of the loop
MaxRecords == 3

\* number of records in the raw trace of one rank, when read() runs whole
MaxTraceLen == 2

\* number of times read() is called on the same trace
MaxReads == 2

(***************************************************************************)
(* The characters of every string the model handles.                       *)
(***************************************************************************)
Chars ==
    ("open" :> <<"o","p","e","n">>)
    @@ ("fopen" :> <<"f","o","p","e","n">>)
    @@ ("fdopen" :> <<"f","d","o","p","e","n">>)
    @@ ("close" :> <<"c","l","o","s","e">>)
    @@ ("fclose" :> <<"f","c","l","o","s","e">>)
    @@ ("lseek" :> <<"l","s","e","e","k">>)
    @@ ("fseek" :> <<"f","s","e","e","k">>)
    @@ ("fsync" :> <<"f","s","y","n","c">>)
    @@ ("fwrite" :> <<"f","w","r","i","t","e">>)
    @@ ("fread" :> <<"f","r","e","a","d">>)
    @@ ("writev" :> <<"w","r","i","t","e","v">>)
    @@ ("readv" :> <<"r","e","a","d","v">>)
    @@ ("pwrite" :> <<"p","w","r","i","t","e">>)
    @@ ("pread" :> <<"p","r","e","a","d">>)
    @@ ("write" :> <<"w","r","i","t","e">>)
    @@ ("read" :> <<"r","e","a","d">>)
    @@ ("fprintf" :> <<"f","p","r","i","n","t","f">>)
    @@ ("vfprintf" :> <<"v","f","p","r","i","n","t","f">>)
    @@ ("getcwd" :> <<"g","e","t","c","w","d">>)
    @@ ("opendir" :> <<"o","p","e","n","d","i","r">>)
    @@ ("readlink" :> <<"r","e","a","d","l","i","n","k">>)
    @@ ("compute_kernel" :> <<"c","o","m","p","u","t","e","_","k","e","r","n","e","l">>)
    @@ ("my_read_helper" :> <<"m","y","_","r","e","a","d","_","h","e","l","p","e","r">>)
    @@ ("MPI_File_open" :> <<"M","P","I","_","F","i","l","e","_","o","p","e","n">>)
    @@ ("MPI_File_write_at" :> <<"M","P","I","_","F","i","l","e","_","w","r","i","t","e","_","a","t">>)
    @@ ("MPI_Barrier" :> <<"M","P","I","_","B","a","r","r","i","e","r">>)
    @@ ("H5Dread" :> <<"H","5","D","r","e","a","d">>)
    @@ ("MPI" :> <<"M","P","I">>)
    @@ ("H5" :> <<"H","5">>)
    @@ ("seek" :> <<"s","e","e","k">>)
    @@ ("sync" :> <<"s","y","n","c">>)
    @@ ("a" :> <<"a">>)
    @@ ("I/O" :> <<"I","/","O">>)
    @@ ("communication" :> <<"c","o","m","m","u","n","i","c","a","t","i","o","n">>)
    @@ ("compute" :> <<"c","o","m","p","u","t","e">>)
    @@ ("write,read,other_io" :> <<"w","r","i","t","e",",","r","e","a","d",",","o","t","h","e","r","_","i","o">>)
    @@ ("w" :> <<"w">>)
    @@ ("a+" :> <<"a","+">>)
    @@ ("x" :> <<"x">>)
    @@ ("None" :> <<"N","o","n","e">>)
    @@ ("/a" :> <<"/","a">>)
    @@ ("/b" :> <<"/","b">>)
    @@ ("buf" :> <<"b","u","f">>)
    @@ ("-1" :> <<"-","1">>)
    @@ ("-5" :> <<"-","5">>)
    @@ ("0" :> <<"0">>)
    @@ ("1" :> <<"1">>)
    @@ ("2" :> <<"2">>)
    @@ ("3" :> <<"3">>)
    @@ ("9" :> <<"9">>)

\* whether the characters a occur in b as a contiguous run
Substring(a, b) ==
    \E i \in 0..(Len(b) - Len(a)) : SubSeq(b, i + 1, i + Len(a)) = a

\* the strings the code looks for inside another string
Keywords ==
    {"MPI", "H5", "fdopen", "fopen", "open", "seek", "close", "sync", "fwrite", "fread",
     "writev", "readv", "pwrite", "pread", "write", "read", "fprintf", "a"}

\* the pairs <<sub, s>> with sub inside s, computed once
Contained ==
    UNION {{p : p \in {q \in Keywords \X DOMAIN c : Substring(c[q[1]], c[q[2]])}} : c \in {Chars}}

\* Python `sub in s` on two str
In(sub, s) == <<sub, s>> \in Contained

DigitVal ==
    ("0" :> 0) @@ ("1" :> 1) @@ ("2" :> 2) @@ ("3" :> 3) @@ ("4" :> 4)
    @@ ("5" :> 5) @@ ("6" :> 6) @@ ("7" :> 7) @@ ("8" :> 8) @@ ("9" :> 9)

\* the digits of a decimal literal, after its sign
IntBody(cs) ==
    IF cs # <<>> /\ cs[1] \in {"-", "+"} THEN Tail(cs) ELSE cs

\* whether the characters cs are a decimal literal int() accepts
IsDecimal(cs) ==
    LET body == IntBody(cs)
    IN  body # <<>> /\ \A i \in 1..Len(body) : body[i] \in DOMAIN DigitVal

RECURSIVE DigitsValue(_)
DigitsValue(ds) ==
    IF ds = <<>> THEN 0
    ELSE 10 * DigitsValue(SubSeq(ds, 1, Len(ds) - 1)) + DigitVal[ds[Len(ds)]]

\* the value of a decimal literal
DecimalValue(cs) ==
    IF cs[1] = "-" THEN 0 - DigitsValue(IntBody(cs)) ELSE DigitsValue(IntBody(cs))

\* the strings int() accepts, computed once
IntLiterals == UNION {{s : s \in {t \in DOMAIN c : IsDecimal(c[t])}} : c \in {Chars}}

\* whether Python int(s) returns (otherwise it raises ValueError)
IsIntLiteral(s) == s \in IntLiterals

\* Python int(s) for a str s that is a decimal literal
int(s) == DecimalValue(Chars[s])

\* Python max(a, b)
max(a, b) == IF a >= b THEN a ELSE b

\* d[k] = v on a dict
DictSet(d, k, v) == (k :> v) @@ d

\* del d[k] on a dict holding k
DictDel(d, k) == [x \in DOMAIN d \ {k} |-> d[x]]

(***************************************************************************)
(* The membership tables of the classification.                            *)
(***************************************************************************)
Posix_IO_functions == {
    "creat", "creat64", "open", "open64", "close", "write", "read", "lseek", "lseek64",
    "pread", "pread64", "pwrite", "pwrite64", "readv", "writev", "mmap", "mmap64", "fopen",
    "fopen64", "fclose", "fwrite", "fread", "ftell", "fseek", "fsync", "fdatasync", "__xstat",
    "__xstat64", "__lxstat", "__lxstat64", "__fxstat", "__fxstat64", "getcwd", "mkdir",
    "rmdir", "chdir", "link", "linkat", "unlink", "symlink", "symlinkat", "readlink",
    "readlinkat", "rename", "chmod", "chown", "lchown", "utime", "opendir", "readdir",
    "closedir", "rewinddir", "mknod", "mknodat", "fcntl", "dup", "dup2", "pipe", "mkfifo",
    "umask", "fdopen", "fileno", "access", "faccessat", "tmpfile", "remove", "truncate",
    "ftruncate", "vfprintf", "msync", "fseeko", "ftello"
}

MPI_IO_functions == {
    "MPI_File_open", "MPI_File_close", "MPI_File_sync", "MPI_File_set_size",
    "MPI_File_set_view", "MPI_File_read", "MPI_File_read_at", "MPI_File_read_at_all",
    "MPI_File_read_all", "MPI_File_read_shared", "MPI_File_read_ordered",
    "MPI_File_read_at_all_begin", "MPI_File_read_all_begin", "MPI_File_read_ordered_begin",
    "MPI_File_iread_at", "MPI_File_iread", "MPI_File_iread_shared", "MPI_File_write",
    "MPI_File_write_at", "MPI_File_write_at_all", "MPI_File_write_all",
    "MPI_File_write_shared", "MPI_File_write_ordered", "MPI_File_write_at_all_begin",
    "MPI_File_write_all_begin", "MPI_File_write_ordered_begin", "MPI_File_iwrite_at",
    "MPI_File_iwrite", "MPI_File_iwrite_shared", "MPI_File_seek", "MPI_File_seek_shared",
    "MPI_File_get_size"
}

MPI_communication_functions == {
    "MPI_Comm_size", "MPI_Comm_rank", "MPI_Get_processor_name", "MPI_Comm_set_errhandler",
    "MPI_Barrier", "MPI_Bcast", "MPI_Ibcast", "MPI_Gather", "MPI_Scatter", "MPI_Gatherv",
    "MPI_Scatterv", "MPI_Allgather", "MPI_Allgatherv", "MPI_Alltoall", "MPI_Reduce",
    "MPI_Allreduce", "MPI_Reduce_scatter", "MPI_Waitall", "MPI_Scan", "MPI_Type_create_darray",
    "MPI_Type_commit", "MPI_Finalized", "MPI_Cart_rank", "MPI_Cart_create", "MPI_Cart_get",
    "MPI_Cart_shift", "MPI_Wait", "MPI_Send", "MPI_Recv", "MPI_Sendrecv", "MPI_Isend",
    "MPI_Irecv", "MPI_Waitsome", "MPI_Waitany", "MPI_Ssend", "MPI_Comm_split",
    "MPI_Comm_create", "MPI_Comm_dup", "MPI_Comm_free", "MPI_Cart_sub", "MPI_Test",
    "MPI_Testall", "MPI_Testsome", "MPI_Testany", "MPI_Ireduce", "MPI_Igather", "MPI_Iscatter",
    "MPI_Ialltoall", "MPI_Comm_split_type", "MPI_Init", "MPI_Init_thread", "MPI_Finalize"
}

HDF5_IO_functions == {
    "H5Fcreate", "H5Fopen", "H5Fclose", "H5Fflush", "H5Gclose", "H5Gcreate1", "H5Gcreate2",
    "H5Gget_objinfo", "H5Giterate", "H5Gopen1", "H5Gopen2", "H5Dclose", "H5Dcreate1",
    "H5Dcreate2", "H5Dget_create_plist", "H5Dget_space", "H5Dget_type", "H5Dopen1", "H5Dopen2",
    "H5Dread", "H5Dwrite", "H5Dset_extent", "H5Sclose", "H5Sget_simple_extent_npoints",
    "H5Screate", "H5Screate_simple", "H5Sget_select_npoints", "H5Sselect_elements",
    "H5Sget_simple_extent_dims", "H5Sselect_hyperslab", "H5Sselect_none", "H5Tclose",
    "H5Tcopy", "H5Tget_class", "H5Tget_size", "H5Tset_size", "H5Tcreate", "H5Tinsert",
    "H5Aclose", "H5Acreate1", "H5Acreate2", "H5Aget_name", "H5Aget_num_attrs", "H5Aget_space",
    "H5Aget_type", "H5Aopen", "H5Aopen_idx", "H5Aopen_name", "H5Aread", "H5Awrite", "H5Pclose",
    "H5Pcreate", "H5Pget_chunk", "H5Pget_mdc_config", "H5Pset_alignment", "H5Pset_chunk",
    "H5Pset_dxpl_mpio", "H5Pset_fapl_core", "H5Pset_fapl_mpio", "H5Pset_fapl_mpiposix",
    "H5Pset_istore_k", "H5Pset_mdc_config", "H5Lexists", "H5Lget_val",
    "H5Pset_meta_block_size", "H5Literate", "H5Oclose", "H5Oget_info", "H5Oget_info_by_name",
    "H5Oopen", "H5Pset_coll_metadata_write", "H5Pget_coll_metadata_write",
    "H5Pset_all_coll_metadata_ops", "H5Pget_all_coll_metadata_ops"
}

(***************************************************************************)
(* The classification columns of a row (function_type, I/O_type,           *)
(* I/O_interface).                                                         *)
(***************************************************************************)
\* A variant of function_type with one fault: the HDF5 table is left out.
function_type_without_hdf5(func_name) ==
    IF \/ func_name \in Posix_IO_functions
       \/ func_name \in MPI_IO_functions
    THEN "I/O"
    ELSE IF func_name \in MPI_communication_functions THEN "communication"
    ELSE "compute"

function_type(func_name) ==
    IF \/ func_name \in Posix_IO_functions
       \/ func_name \in MPI_IO_functions
       \/ func_name \in HDF5_IO_functions
    THEN "I/O"
    ELSE IF func_name \in MPI_communication_functions THEN "communication"
    ELSE "compute"

IO_type(func_name) ==
    IF In("write", func_name) THEN "write"
    ELSE IF In("read", func_name) THEN "read"
    ELSE IF \/ func_name \in Posix_IO_functions
            \/ func_name \in MPI_IO_functions
            \/ func_name \in HDF5_IO_functions
    THEN "meta"
    ELSE "not I/O"

IO_interface(func_name) ==
    IF func_name \in Posix_IO_functions THEN "POSIX"
    ELSE IF func_name \in MPI_IO_functions THEN "MPIIO"
    ELSE IF func_name \in HDF5_IO_functions THEN "HDF5"
    ELSE "not I/O"

(***************************************************************************)
(* Arguments.  function_args is a Python list of str, indexed from 0.      *)
(***************************************************************************)
\* the exception function_args[i] raises, "" when it returns
ArgExc(function_args, i) ==
    IF i >= Len(function_args) THEN "IndexError" ELSE ""

\* the exception int(function_args[i]) raises, "" when it returns
IntArgExc(function_args, i) ==
    IF i >= Len(function_args) THEN "IndexError"
    ELSE IF ~IsIntLiteral(function_args[i + 1]) THEN "ValueError"
    ELSE ""

\* function_args[i]
Arg(function_args, i) == function_args[i + 1]

\* int(function_args[i])
IntArg(function_args, i) == int(function_args[i + 1])

\* the first exception of expressions evaluated left to right
RECURSIVE FirstExc(_)
FirstExc(excs) ==
    IF excs = <<>> THEN ""
    ELSE IF Head(excs) # "" THEN Head(excs)
    ELSE FirstExc(Tail(excs))

\* the arguments a failed args_to_strs() is replaced by
PlaceholderArgs == <<"None", "None", "None", "None", "None", "None">>

(***************************************************************************)
(* The locals of one iteration of the loop over all_records: the rank's    *)
(* two dicts, the shared end_of_files, and filename, io_size, offset and   *)
(* error.  `raised` is the exception that left the iteration, "" if none.  *)
(***************************************************************************)
Locals(fd_to_filename, fd_offset, eofs, error) ==
    [fd_to_filename |-> fd_to_filename, fd_offset |-> fd_offset,
     end_of_files |-> eofs, filename |-> None, io_size |-> None,
     offset |-> None, error |-> error, raised |-> ""]

Raise(L, exc) == [L EXCEPT !.raised = exc]

NotFound(what) ==
    what \o " a non-existing file descriptor (no open returns this file descriptor or already closed)"

\* A variant of the fdopen branch with one fault: the source descriptor is
\* unbound, as if fdopen moved it.
fdopen_branch_moves(L, rcd, function_args) ==
    LET fd == rcd.res
        exc == IntArgExc(function_args, 0)
    IN  IF exc # "" THEN Raise(L, exc)
        ELSE
        LET old_fd == IntArg(function_args, 0)
        IN  IF old_fd \notin DOMAIN L.fd_to_filename
            THEN [L EXCEPT
                    !.error = PyStr("Error: fdopen a non-existing file descriptor (no previous open returns this file descriptor or already closed)"),
                    !.filename = PyStr("__unknown__")]
            ELSE [L EXCEPT
                    !.filename = PyStr(L.fd_to_filename[old_fd]),
                    !.fd_to_filename = DictSet(DictDel(@, old_fd), fd, L.fd_to_filename[old_fd]),
                    !.fd_offset = DictSet(DictDel(@, old_fd), fd, 0)]

\* A variant of the fdopen branch with one fault: the new descriptor starts
\* at the offset of the source.
fdopen_branch_copies_offset(L, rcd, function_args) ==
    LET fd == rcd.res
        exc == IntArgExc(function_args, 0)
    IN  IF exc # "" THEN Raise(L, exc)
        ELSE
        LET old_fd == IntArg(function_args, 0)
        IN  IF old_fd \notin DOMAIN L.fd_to_filename
            THEN [L EXCEPT
                    !.error = PyStr("Error: fdopen a non-existing file descriptor (no previous open returns this file descriptor or already closed)"),
                    !.filename = PyStr("__unknown__")]
            ELSE [L EXCEPT
                    !.filename = PyStr(L.fd_to_filename[old_fd]),
                    !.fd_to_filename = DictSet(@, fd, L.fd_to_filename[old_fd]),
                    !.fd_offset = DictSet(@, fd, L.fd_offset[old_fd])]

\* A variant of the fdopen branch with one fault: an fdopen whose source is
\* not open binds the new descriptor to '__unknown__'.
fdopen_branch_binds_unknown(L, rcd, function_args) ==
    LET fd == rcd.res
        exc == IntArgExc(function_args, 0)
    IN  IF exc # "" THEN Raise(L, exc)
        ELSE
        LET old_fd == IntArg(function_args, 0)
        IN  IF old_fd \notin DOMAIN L.fd_to_filename
            THEN [L EXCEPT
                    !.error = PyStr("Error: fdopen a non-existing file descriptor (no previous open returns this file descriptor or already closed)"),
                    !.filename = PyStr("__unknown__"),
                    !.fd_to_filename = DictSet(@, fd, "__unknown__")]
            ELSE [L EXCEPT
                    !.filename = PyStr(L.fd_to_filename[old_fd]),
                    !.fd_to_filename = DictSet(@, fd, L.fd_to_filename[old_fd]),
                    !.fd_offset = DictSet(@, fd, 0)]

\* elif 'fdopen' in func_name
fdopen_branch(L, rcd, function_args) ==
    LET fd == rcd.res
        exc == IntArgExc(function_args, 0)
    IN  IF exc # "" THEN Raise(L, exc)
        ELSE
        LET old_fd == IntArg(function_args, 0)
        IN  IF old_fd \notin DOMAIN L.fd_to_filename
            THEN [L EXCEPT
                    !.error = PyStr("Error: fdopen a non-existing file descriptor (no previous open returns this file descriptor or already closed)"),
                    !.filename = PyStr("__unknown__")]
            ELSE [L EXCEPT
                    !.filename = PyStr(L.fd_to_filename[old_fd]),
                    !.fd_to_filename = DictSet(@, fd, L.fd_to_filename[old_fd]),
                    !.fd_offset = DictSet(@, fd, 0)]

\* A variant of the fopen branch with one fault: the offset of the new
\* descriptor is set after the mode is read, so an fopen without a mode
\* leaves the descriptor bound and without an offset.
fopen_branch_offset_after_mode(L, rcd, function_args) ==
    LET fd == rcd.res
    IN  IF ArgExc(function_args, 0) # "" THEN Raise(L, ArgExc(function_args, 0))
        ELSE
        LET filename == Arg(function_args, 0)
            eofs == IF filename \notin DOMAIN L.end_of_files
                    THEN DictSet(L.end_of_files, filename, 0)
                    ELSE L.end_of_files
            named == [L EXCEPT
                        !.filename = PyStr(filename),
                        !.fd_to_filename = DictSet(@, fd, filename),
                        !.end_of_files = eofs]
            bound == [named EXCEPT !.fd_offset = DictSet(@, fd, 0)]
        IN  IF ArgExc(function_args, 1) # "" THEN Raise(named, ArgExc(function_args, 1))
            ELSE
            LET openMode == Arg(function_args, 1)
            IN  IF In("a", openMode)
                THEN [bound EXCEPT !.fd_offset = DictSet(@, fd, eofs[filename])]
                ELSE bound

\* elif 'fopen' in func_name
fopen_branch(L, rcd, function_args) ==
    LET fd == rcd.res
    IN  IF ArgExc(function_args, 0) # "" THEN Raise(L, ArgExc(function_args, 0))
        ELSE
        LET filename == Arg(function_args, 0)
            eofs == IF filename \notin DOMAIN L.end_of_files
                    THEN DictSet(L.end_of_files, filename, 0)
                    ELSE L.end_of_files
            bound == [L EXCEPT
                        !.filename = PyStr(filename),
                        !.fd_to_filename = DictSet(@, fd, filename),
                        !.end_of_files = eofs,
                        !.fd_offset = DictSet(@, fd, 0)]
        IN  IF ArgExc(function_args, 1) # "" THEN Raise(bound, ArgExc(function_args, 1))
            ELSE
            LET openMode == Arg(function_args, 1)
            IN  IF In("a", openMode)
                THEN [bound EXCEPT !.fd_offset = DictSet(@, fd, eofs[filename])]
                ELSE bound

\* Variants of the open branch, each with one fault, against which the
\* properties of open are checked to be sensitive.
\* A descriptor that is already bound keeps its old file (dict.setdefault).
open_branch_keeps_binding(L, rcd, function_args) ==
    LET fd == rcd.res
    IN  IF ArgExc(function_args, 0) # "" THEN Raise(L, ArgExc(function_args, 0))
        ELSE
        LET filename == Arg(function_args, 0)
            eofs == IF filename \notin DOMAIN L.end_of_files
                    THEN DictSet(L.end_of_files, filename, 0)
                    ELSE L.end_of_files
            bound == [L EXCEPT
                        !.filename = PyStr(filename),
                        !.fd_to_filename = IF fd \in DOMAIN @ THEN @ ELSE DictSet(@, fd, filename),
                        !.end_of_files = eofs,
                        !.fd_offset = DictSet(@, fd, 0)]
        IN  IF IntArgExc(function_args, 1) # "" THEN Raise(bound, IntArgExc(function_args, 1))
            ELSE
            LET openMode == IntArg(function_args, 1)
            IN  IF openMode = 2
                THEN [bound EXCEPT !.fd_offset = DictSet(@, fd, eofs[filename])]
                ELSE bound

\* The append flag is compared with O_APPEND of fcntl.h instead of 2.
open_branch_o_append(L, rcd, function_args) ==
    LET fd == rcd.res
    IN  IF ArgExc(function_args, 0) # "" THEN Raise(L, ArgExc(function_args, 0))
        ELSE
        LET filename == Arg(function_args, 0)
            eofs == IF filename \notin DOMAIN L.end_of_files
                    THEN DictSet(L.end_of_files, filename, 0)
                    ELSE L.end_of_files
            bound == [L EXCEPT
                        !.filename = PyStr(filename),
                        !.fd_to_filename = DictSet(@, fd, filename),
                        !.end_of_files = eofs,
                        !.fd_offset = DictSet(@, fd, 0)]
        IN  IF IntArgExc(function_args, 1) # "" THEN Raise(bound, IntArgExc(function_args, 1))
            ELSE
            LET openMode == IntArg(function_args, 1)
            IN  IF openMode = 1024
                THEN [bound EXCEPT !.fd_offset = DictSet(@, fd, eofs[filename])]
                ELSE bound

\* A variant of the open branch with one fault: an open that does not
\* append truncates the file, its end-of-file goes back to 0.
open_branch_truncates(L, rcd, function_args) ==
    LET fd == rcd.res
    IN  IF ArgExc(function_args, 0) # "" THEN Raise(L, ArgExc(function_args, 0))
        ELSE
        LET filename == Arg(function_args, 0)
            eofs == IF filename \notin DOMAIN L.end_of_files
                    THEN DictSet(L.end_of_files, filename, 0)
                    ELSE L.end_of_files
            bound == [L EXCEPT
                        !.filename = PyStr(filename),
                        !.fd_to_filename = DictSet(@, fd, filename),
                        !.end_of_files = eofs,
                        !.fd_offset = DictSet(@, fd, 0)]
        IN  IF IntArgExc(function_args, 1) # "" THEN Raise(bound, IntArgExc(function_args, 1))
            ELSE
            LET openMode == IntArg(function_args, 1)
            IN  IF openMode = 2
                THEN [bound EXCEPT !.fd_offset = DictSet(@, fd, eofs[filename])]
                ELSE [bound EXCEPT !.end_of_files = DictSet(@, filename, 0)]

\* elif 'open' in func_name
open_branch(L, rcd, function_args) ==
    LET fd == rcd.res
    IN  IF ArgExc(function_args, 0) # "" THEN Raise(L, ArgExc(function_args, 0))
        ELSE
        LET filename == Arg(function_args, 0)
            eofs == IF filename \notin DOMAIN L.end_of_files
                    THEN DictSet(L.end_of_files, filename, 0)
                    ELSE L.end_of_files
            bound == [L EXCEPT
                        !.filename = PyStr(filename),
                        !.fd_to_filename = DictSet(@, fd, filename),
                        !.end_of_files = eofs,
                        !.fd_offset = DictSet(@, fd, 0)]
        IN  IF IntArgExc(function_args, 1) # "" THEN Raise(bound, IntArgExc(function_args, 1))
            ELSE
            LET openMode == IntArg(function_args, 1)
            IN  IF openMode = 2
                THEN [bound EXCEPT !.fd_offset = DictSet(@, fd, eofs[filename])]
                ELSE bound

\* A variant of the seek branch with one fault: a seek before the start of
\* the file is reported and applied all the same.
seek_branch_applies_before_start(L, rcd, function_args) ==
    LET exc == FirstExc(<<IntArgExc(function_args, 0), IntArgExc(function_args, 1),
                          IntArgExc(function_args, 2)>>)
    IN  IF exc # "" THEN Raise(L, exc)
        ELSE
        LET fd == IntArg(function_args, 0)
            offset == IntArg(function_args, 1)
            whence == IntArg(function_args, 2)
            at == [L EXCEPT !.offset = PyInt(offset)]
        IN  IF fd \notin DOMAIN L.fd_to_filename
            THEN [at EXCEPT
                    !.error = PyStr(NotFound("Error: seek")),
                    !.filename = PyStr("__unknown__"),
                    !.offset = PyInt(-1)]
            ELSE
            LET filename == L.fd_to_filename[fd]
                named == [at EXCEPT !.filename = PyStr(filename)]
                cur == L.fd_offset[fd]
                end == L.end_of_files[filename]
            IN  IF whence = 0 THEN
                    [named EXCEPT !.fd_offset = DictSet(@, fd, offset)]
                ELSE IF whence = 1 THEN
                    IF cur + offset > end THEN
                        [named EXCEPT
                            !.error = PyStr("Warning: seek beyond end of file"),
                            !.fd_offset = DictSet(@, fd, cur + offset)]
                    ELSE IF cur + offset < 0 THEN
                        [named EXCEPT
                            !.error = PyStr("Error: seek beyond start of file"),
                            !.fd_offset = DictSet(@, fd, cur + offset)]
                    ELSE
                        [named EXCEPT !.fd_offset = DictSet(@, fd, cur + offset)]
                ELSE IF whence = 2 THEN
                    IF offset > 0 THEN
                        [named EXCEPT
                            !.error = PyStr("Warning: seek beyond end of file"),
                            !.fd_offset = DictSet(@, fd, end + offset)]
                    ELSE IF end + offset < 0 THEN
                        [named EXCEPT
                            !.error = PyStr("Error: seek beyond start of file"),
                            !.fd_offset = DictSet(@, fd, end + offset)]
                    ELSE
                        [named EXCEPT !.fd_offset = DictSet(@, fd, end + offset)]
                ELSE named

\* A variant of the seek branch with one fault: a seek with whence 0 past
\* the end of the file extends the end-of-file.
seek_branch_extends_eof(L, rcd, function_args) ==
    LET exc == FirstExc(<<IntArgExc(function_args, 0), IntArgExc(function_args, 1),
                          IntArgExc(function_args, 2)>>)
    IN  IF exc # "" THEN Raise(L, exc)
        ELSE
        LET fd == IntArg(function_args, 0)
            offset == IntArg(function_args, 1)
            whence == IntArg(function_args, 2)
            at == [L EXCEPT !.offset = PyInt(offset)]
        IN  IF fd \notin DOMAIN L.fd_to_filename
            THEN [at EXCEPT
                    !.error = PyStr(NotFound("Error: seek")),
                    !.filename = PyStr("__unknown__"),
                    !.offset = PyInt(-1)]
            ELSE
            LET filename == L.fd_to_filename[fd]
                named == [at EXCEPT !.filename = PyStr(filename)]
                cur == L.fd_offset[fd]
                end == L.end_of_files[filename]
            IN  IF whence = 0 THEN
                    [named EXCEPT
                        !.fd_offset = DictSet(@, fd, offset),
                        !.end_of_files = DictSet(@, filename, max(end, offset))]
                ELSE IF whence = 1 THEN
                    IF cur + offset > end THEN
                        [named EXCEPT
                            !.error = PyStr("Warning: seek beyond end of file"),
                            !.fd_offset = DictSet(@, fd, cur + offset)]
                    ELSE IF cur + offset < 0 THEN
                        [named EXCEPT !.error = PyStr("Error: seek beyond start of file")]
                    ELSE
                        [named EXCEPT !.fd_offset = DictSet(@, fd, cur + offset)]
                ELSE IF whence = 2 THEN
                    IF offset > 0 THEN
                        [named EXCEPT
                            !.error = PyStr("Warning: seek beyond end of file"),
                            !.fd_offset = DictSet(@, fd, end + offset)]
                    ELSE IF end + offset < 0 THEN
                        [named EXCEPT !.error = PyStr("Error: seek beyond start of file")]
                    ELSE
                        [named EXCEPT !.fd_offset = DictSet(@, fd, end + offset)]
                ELSE named

\* A variant of the seek branch with one fault: whence 0 moves the
\* descriptor by the argument instead of to it.
seek_branch_set_is_relative(L, rcd, function_args) ==
    LET exc == FirstExc(<<IntArgExc(function_args, 0), IntArgExc(function_args, 1),
                          IntArgExc(function_args, 2)>>)
    IN  IF exc # "" THEN Raise(L, exc)
        ELSE
        LET fd == IntArg(function_args, 0)
            offset == IntArg(function_args, 1)
            whence == IntArg(function_args, 2)
            at == [L EXCEPT !.offset = PyInt(offset)]
        IN  IF fd \notin DOMAIN L.fd_to_filename
            THEN [at EXCEPT
                    !.error = PyStr(NotFound("Error: seek")),
                    !.filename = PyStr("__unknown__"),
                    !.offset = PyInt(-1)]
            ELSE
            LET filename == L.fd_to_filename[fd]
                named == [at EXCEPT !.filename = PyStr(filename)]
                cur == L.fd_offset[fd]
                end == L.end_of_files[filename]
            IN  IF whence \in {0, 1} THEN
                    IF cur + offset > end THEN
                        [named EXCEPT
                            !.error = PyStr("Warning: seek beyond end of file"),
                            !.fd_offset = DictSet(@, fd, cur + offset)]
                    ELSE IF cur + offset < 0 THEN
                        [named EXCEPT !.error = PyStr("Error: seek beyond start of file")]
                    ELSE
                        [named EXCEPT !.fd_offset = DictSet(@, fd, cur + offset)]
                ELSE IF whence = 2 THEN
                    IF offset > 0 THEN
                        [named EXCEPT
                            !.error = PyStr("Warning: seek beyond end of file"),
                            !.fd_offset = DictSet(@, fd, end + offset)]
                    ELSE IF end + offset < 0 THEN
                        [named EXCEPT !.error = PyStr("Error: seek beyond start of file")]
                    ELSE
                        [named EXCEPT !.fd_offset = DictSet(@, fd, end + offset)]
                ELSE named

\* elif 'seek' in func_name
seek_branch(L, rcd, function_args) ==
    LET exc == FirstExc(<<IntArgExc(function_args, 0), IntArgExc(function_args, 1),
                          IntArgExc(function_args, 2)>>)
    IN  IF exc # "" THEN Raise(L, exc)
        ELSE
        LET fd == IntArg(function_args, 0)
            offset == IntArg(function_args, 1)
            whence == IntArg(function_args, 2)
            at == [L EXCEPT !.offset = PyInt(offset)]
        IN  IF fd \notin DOMAIN L.fd_to_filename
            THEN [at EXCEPT
                    !.error = PyStr(NotFound("Error: seek")),
                    !.filename = PyStr("__unknown__"),
                    !.offset = PyInt(-1)]
            ELSE
            LET filename == L.fd_to_filename[fd]
                named == [at EXCEPT !.filename = PyStr(filename)]
                cur == L.fd_offset[fd]
                end == L.end_of_files[filename]
            IN  IF whence = 0 THEN
                    [named EXCEPT !.fd_offset = DictSet(@, fd, offset)]
                ELSE IF whence = 1 THEN
                    IF cur + offset > end THEN
                        [named EXCEPT
                            !.error = PyStr("Warning: seek beyond end of file"),
                            !.fd_offset = DictSet(@, fd, cur + offset)]
                    ELSE IF cur + offset < 0 THEN
                        [named EXCEPT !.error = PyStr("Error: seek beyond start of file")]
                    ELSE
                        [named EXCEPT !.fd_offset = DictSet(@, fd, cur + offset)]
                ELSE IF whence = 2 THEN
                    IF offset > 0 THEN
                        [named EXCEPT
                            !.error = PyStr("Warning: seek beyond end of file"),
                            !.fd_offset = DictSet(@, fd, end + offset)]
                    ELSE IF end + offset < 0 THEN
                        [named EXCEPT !.error = PyStr("Error: seek beyond start of file")]
                    ELSE
                        [named EXCEPT !.fd_offset = DictSet(@, fd, end + offset)]
                ELSE named

\* A variant of the close branch with one fault: the descriptor's entry of
\* fd_offset is not deleted.
close_branch_keeps_offset(L, rcd, function_args) ==
    LET exc == IntArgExc(function_args, 0)
    IN  IF exc # "" THEN Raise(L, exc)
        ELSE
        LET fd == IntArg(function_args, 0)
        IN  IF fd \notin DOMAIN L.fd_to_filename
            THEN [L EXCEPT
                    !.filename = PyStr("__unknown__"),
                    !.error = PyStr(NotFound("Error: close"))]
            ELSE [L EXCEPT
                    !.filename = PyStr(L.fd_to_filename[fd]),
                    !.fd_to_filename = DictDel(@, fd)]

\* elif 'close' in func_name
close_branch(L, rcd, function_args) ==
    LET exc == IntArgExc(function_args, 0)
    IN  IF exc # "" THEN Raise(L, exc)
        ELSE
        LET fd == IntArg(function_args, 0)
        IN  IF fd \notin DOMAIN L.fd_to_filename
            THEN [L EXCEPT
                    !.filename = PyStr("__unknown__"),
                    !.error = PyStr(NotFound("Error: close"))]
            ELSE [L EXCEPT
                    !.filename = PyStr(L.fd_to_filename[fd]),
                    !.fd_to_filename = DictDel(@, fd),
                    !.fd_offset = DictDel(@, fd)]

\* elif 'sync' in func_name
sync_branch(L, rcd, function_args) ==
    LET exc == IntArgExc(function_args, 0)
    IN  IF exc # "" THEN Raise(L, exc)
        ELSE
        LET fd == IntArg(function_args, 0)
        IN  IF fd \notin DOMAIN L.fd_to_filename
            THEN [L EXCEPT
                    !.filename = PyStr("__unknown__"),
                    !.error = PyStr(NotFound("Error: sync"))]
            ELSE [L EXCEPT !.filename = PyStr(L.fd_to_filename[fd])]

\* elif 'fwrite' in func_name or 'fread' in func_name
fwrite_fread_branch(L, rcd, function_args) ==
    LET exc == FirstExc(<<IntArgExc(function_args, 1), IntArgExc(function_args, 2), IntArgExc(function_args, 3)>>)
    IN  IF exc # "" THEN Raise(L, exc)
        ELSE
        LET fd == IntArg(function_args, 3)
            io_size == IntArg(function_args, 1) * IntArg(function_args, 2)
            sized == [L EXCEPT !.io_size = PyInt(io_size)]
        IN  IF fd \notin DOMAIN L.fd_to_filename
            THEN [sized EXCEPT
                    !.error = PyStr(NotFound("Error: write or read")),
                    !.filename = PyStr("__unknown__"),
                    !.offset = PyInt(-1)]
            ELSE
            LET filename == L.fd_to_filename[fd]
                new == L.fd_offset[fd] + io_size
            IN  [sized EXCEPT
                    !.filename = PyStr(filename),
                    !.offset = PyInt(L.fd_offset[fd]),
                    !.fd_offset = DictSet(@, fd, new),
                    !.end_of_files = DictSet(@, filename, max(L.end_of_files[filename], new))]

\* elif 'writev' in func_name or 'readv' in func_name
writev_readv_branch(L, rcd, function_args) ==
    LET exc == FirstExc(<<IntArgExc(function_args, 0), IntArgExc(function_args, 1)>>)
    IN  IF exc # "" THEN Raise(L, exc)
        ELSE
        LET fd == IntArg(function_args, 0)
            io_size == IntArg(function_args, 1)
            sized == [L EXCEPT !.io_size = PyInt(io_size)]
        IN  IF fd \notin DOMAIN L.fd_to_filename
            THEN [sized EXCEPT
                    !.error = PyStr(NotFound("Error: write or read")),
                    !.filename = PyStr("__unknown__"),
                    !.offset = PyInt(-1)]
            ELSE
            LET filename == L.fd_to_filename[fd]
                new == L.fd_offset[fd] + io_size
            IN  [sized EXCEPT
                    !.filename = PyStr(filename),
                    !.offset = PyInt(L.fd_offset[fd]),
                    !.fd_offset = DictSet(@, fd, new),
                    !.end_of_files = DictSet(@, filename, max(L.end_of_files[filename], new))]

\* A variant of the pwrite/pread branch with one fault: the transfer moves
\* the running offset of the descriptor to its end.
pwrite_pread_branch_moves_offset(L, rcd, function_args) ==
    LET exc == FirstExc(<<IntArgExc(function_args, 0), IntArgExc(function_args, 2),
                          IntArgExc(function_args, 3)>>)
    IN  IF exc # "" THEN Raise(L, exc)
        ELSE
        LET fd == IntArg(function_args, 0)
            io_size == IntArg(function_args, 2)
            offset == IntArg(function_args, 3)
            at == [L EXCEPT !.io_size = PyInt(io_size), !.offset = PyInt(offset)]
        IN  IF fd \notin DOMAIN L.fd_to_filename
            THEN [at EXCEPT
                    !.error = PyStr(NotFound("Error: write or read")),
                    !.filename = PyStr("__unknown__")]
            ELSE
            LET filename == L.fd_to_filename[fd]
                end == L.end_of_files[filename]
                error == IF offset > end
                         THEN PyStr("Warning: pwrite or pread beyond end of file")
                         ELSE IF offset < 0
                         THEN PyStr("Error: pwrite or pread beyond start of file")
                         ELSE L.error
            IN  [at EXCEPT
                    !.filename = PyStr(filename),
                    !.error = error,
                    !.fd_offset = DictSet(@, fd, offset + io_size),
                    !.end_of_files = DictSet(@, filename, max(end, offset + io_size))]

\* elif 'pwrite' in func_name or 'pread' in func_name
pwrite_pread_branch(L, rcd, function_args) ==
    LET exc == FirstExc(<<IntArgExc(function_args, 0), IntArgExc(function_args, 2),
                          IntArgExc(function_args, 3)>>)
    IN  IF exc # "" THEN Raise(L, exc)
        ELSE
        LET fd == IntArg(function_args, 0)
            io_size == IntArg(function_args, 2)
            offset == IntArg(function_args, 3)
            at == [L EXCEPT !.io_size = PyInt(io_size), !.offset = PyInt(offset)]
        IN  IF fd \notin DOMAIN L.fd_to_filename
            THEN [at EXCEPT
                    !.error = PyStr(NotFound("Error: write or read")),
                    !.filename = PyStr("__unknown__")]
            ELSE
            LET filename == L.fd_to_filename[fd]
                end == L.end_of_files[filename]
                error == IF offset > end
                         THEN PyStr("Warning: pwrite or pread beyond end of file")
                         ELSE IF offset < 0
                         THEN PyStr("Error: pwrite or pread beyond start of file")
                         ELSE L.error
            IN  [at EXCEPT
                    !.filename = PyStr(filename),
                    !.error = error,
                    !.end_of_files = DictSet(@, filename, max(end, offset + io_size))]

\* A variant of the write/read branch with one fault: a descriptor that is
\* not found leaves the offset unset.
write_read_branch_unset_offset(L, rcd, function_args) ==
    LET exc == FirstExc(<<IntArgExc(function_args, 0), IntArgExc(function_args, 2)>>)
    IN  IF exc # "" THEN Raise(L, exc)
        ELSE
        LET fd == IntArg(function_args, 0)
            io_size == IntArg(function_args, 2)
            sized == [L EXCEPT !.io_size = PyInt(io_size)]
        IN  IF fd \notin DOMAIN L.fd_to_filename
            THEN [sized EXCEPT
                    !.error = PyStr(NotFound("Error: write or read")),
                    !.filename = PyStr("__unknown__")]
            ELSE
            LET filename == L.fd_to_filename[fd]
                new == L.fd_offset[fd] + io_size
            IN  [sized EXCEPT
                    !.filename = PyStr(filename),
                    !.offset = PyInt(L.fd_offset[fd]),
                    !.fd_offset = DictSet(@, fd, new),
                    !.end_of_files = DictSet(@, filename, max(L.end_of_files[filename], new))]

\* elif 'write' in func_name or 'read' in func_name
write_read_branch(L, rcd, function_args) ==
    LET exc == FirstExc(<<IntArgExc(function_args, 0), IntArgExc(function_args, 2)>>)
    IN  IF exc # "" THEN Raise(L, exc)
        ELSE
        LET fd == IntArg(function_args, 0)
            io_size == IntArg(function_args, 2)
            sized == [L EXCEPT !.io_size = PyInt(io_size)]
        IN  IF fd \notin DOMAIN L.fd_to_filename
            THEN [sized EXCEPT
                    !.error = PyStr(NotFound("Error: write or read")),
                    !.filename = PyStr("__unknown__"),
                    !.offset = PyInt(-1)]
            ELSE
            LET filename == L.fd_to_filename[fd]
                new == L.fd_offset[fd] + io_size
            IN  [sized EXCEPT
                    !.filename = PyStr(filename),
                    !.offset = PyInt(L.fd_offset[fd]),
                    !.fd_offset = DictSet(@, fd, new),
                    !.end_of_files = DictSet(@, filename, max(L.end_of_files[filename], new))]

\* elif 'fprintf' in func_name
fprintf_branch(L, rcd, function_args) ==
    LET exc == FirstExc(<<IntArgExc(function_args, 0), IntArgExc(function_args, 1)>>)
    IN  IF exc # "" THEN Raise(L, exc)
        ELSE
        LET fd == IntArg(function_args, 0)
            io_size == IntArg(function_args, 1)
            sized == [L EXCEPT !.io_size = PyInt(io_size)]
        IN  IF fd \notin DOMAIN L.fd_to_filename
            THEN [sized EXCEPT
                    !.error = PyStr(NotFound("Error: fprintf")),
                    !.filename = PyStr("__unknown__"),
                    !.offset = PyInt(-1)]
            ELSE
            LET filename == L.fd_to_filename[fd]
                new == L.fd_offset[fd] + io_size
            IN  [sized EXCEPT
                    !.filename = PyStr(filename),
                    !.offset = PyInt(L.fd_offset[fd]),
                    !.fd_offset = DictSet(@, fd, new),
                    !.end_of_files = DictSet(@, filename, max(L.end_of_files[filename], new))]

(***************************************************************************)
(* The if/elif chain of the loop body: the branch that handles a record.   *)
(* `error` is None, or PyInt(1) after a failed args_to_strs().             *)
(***************************************************************************)
Branch(func_name, error) ==
    IF error = PyInt(1) THEN "decode_error"
    ELSE IF In("MPI", func_name) \/ In("H5", func_name) THEN "mpi_h5"
    ELSE IF In("fdopen", func_name) THEN "fdopen"
    ELSE IF In("fopen", func_name) THEN "fopen"
    ELSE IF In("open", func_name) THEN "open"
    ELSE IF In("seek", func_name) THEN "seek"
    ELSE IF In("close", func_name) THEN "close"
    ELSE IF In("sync", func_name) THEN "sync"
    ELSE IF In("fwrite", func_name) \/ In("fread", func_name) THEN "fwrite_fread"
    ELSE IF In("writev", func_name) \/ In("readv", func_name) THEN "writev_readv"
    ELSE IF In("pwrite", func_name) \/ In("pread", func_name) THEN "pwrite_pread"
    ELSE IF In("write", func_name) \/ In("read", func_name) THEN "write_read"
    ELSE IF In("fprintf", func_name) THEN "fprintf"
    ELSE "none"

\* self.reader.funcs: the function names of the trace, indexed by func_id
funcs ==
    <<"open", "fopen", "fdopen", "close", "fclose", "lseek", "fseek", "fsync",
      "fwrite", "fread", "writev", "readv", "pwrite", "pread", "write", "read",
      "fprintf", "vfprintf", "getcwd", "opendir", "readlink", "compute_kernel",
      "my_read_helper", "MPI_File_open", "MPI_File_write_at", "MPI_Barrier", "H5Dread">>

\* self.reader.funcs[func_id], func_id counted from 0
FuncName(func_id) == funcs[func_id + 1]

\* the func_id of a name of funcs
FuncId(func_name) == (CHOOSE i \in 1..Len(funcs) : funcs[i] = func_name) - 1

\* A variant of DecodeArgs with one fault: the except clause substitutes
\* the placeholders but does not set error.
DecodeArgs_no_error_flag(rcd) ==
    IF rcd.decode \in {"UnicodeDecodeError", "AttributeError"}
    THEN [function_args |-> PlaceholderArgs, error |-> None, raised |-> ""]
    ELSE [function_args |-> rcd.args, error |-> None, raised |-> rcd.decode]

\* the outcome of record.args_to_strs(): the decoded arguments and error
DecodeArgs(rcd) ==
    IF rcd.decode \in {"UnicodeDecodeError", "AttributeError"}
    THEN [function_args |-> PlaceholderArgs, error |-> PyInt(1), raised |-> ""]
    ELSE [function_args |-> rcd.args, error |-> None, raised |-> rcd.decode]

\* A variant of Iteration with one fault: the test for write/read comes
\* before the tests for fwrite/fread, writev/readv and pwrite/pread.
Iteration_generic_write_first(fd_to_filename, fd_offset, eofs, rcd) ==
    LET dec == DecodeArgs(rcd)
        function_args == dec.function_args
        L == Locals(fd_to_filename, fd_offset, eofs, dec.error)
        b == Branch(FuncName(rcd.func_id), dec.error)
    IN  IF dec.raised # "" THEN Raise(L, dec.raised)
        ELSE IF b = "fdopen" THEN fdopen_branch(L, rcd, function_args)
        ELSE IF b = "fopen" THEN fopen_branch(L, rcd, function_args)
        ELSE IF b = "open" THEN open_branch(L, rcd, function_args)
        ELSE IF b = "seek" THEN seek_branch(L, rcd, function_args)
        ELSE IF b = "close" THEN close_branch(L, rcd, function_args)
        ELSE IF b = "sync" THEN sync_branch(L, rcd, function_args)
        ELSE IF b \in {"fwrite_fread", "writev_readv", "pwrite_pread", "write_read"}
             THEN write_read_branch(L, rcd, function_args)
        ELSE IF b = "fprintf" THEN fprintf_branch(L, rcd, function_args)
        ELSE L

\* A variant of Iteration with one fault: a name that contains "MPI" or
\* "H5" is not skipped, and one that contains "write" or "read" is replayed
\* as a write/read.
Iteration_without_mpi_skip(fd_to_filename, fd_offset, eofs, rcd) ==
    LET func_name == FuncName(rcd.func_id)
        dec == DecodeArgs(rcd)
        function_args == dec.function_args
        L == Locals(fd_to_filename, fd_offset, eofs, dec.error)
        b == Branch(func_name, dec.error)
    IN  IF dec.raised # "" THEN Raise(L, dec.raised)
        ELSE IF b = "mpi_h5" /\ (In("write", func_name) \/ In("read", func_name))
             THEN write_read_branch(L, rcd, function_args)
        ELSE IF b = "fdopen" THEN fdopen_branch(L, rcd, function_args)
        ELSE IF b = "fopen" THEN fopen_branch(L, rcd, function_args)
        ELSE IF b = "open" THEN open_branch(L, rcd, function_args)
        ELSE IF b = "seek" THEN seek_branch(L, rcd, function_args)
        ELSE IF b = "close" THEN close_branch(L, rcd, function_args)
        ELSE IF b = "sync" THEN sync_branch(L, rcd, function_args)
        ELSE IF b = "fwrite_fread" THEN fwrite_fread_branch(L, rcd, function_args)
        ELSE IF b = "writev_readv" THEN writev_readv_branch(L, rcd, function_args)
        ELSE IF b = "pwrite_pread" THEN pwrite_pread_branch(L, rcd, function_args)
        ELSE IF b = "write_read" THEN write_read_branch(L, rcd, function_args)
        ELSE IF b = "fprintf" THEN fprintf_branch(L, rcd, function_args)
        ELSE L

\* A variant of Iteration with one fault: the end-of-file table is not
\* shared, a rank above 0 does not see the end-of-file values of the table.
Iteration_private_end_of_files(fd_to_filename, fd_offset, eofs, rcd) ==
    LET func_name == FuncName(rcd.func_id)
        dec == DecodeArgs(rcd)
        function_args == dec.function_args
        seen == IF rcd.rank = 0 THEN eofs ELSE [f \in DOMAIN eofs |-> 0]
        L == Locals(fd_to_filename, fd_offset, seen, dec.error)
        b == Branch(func_name, dec.error)
    IN  IF dec.raised # "" THEN Raise(L, dec.raised)
        ELSE IF b = "fdopen" THEN fdopen_branch(L, rcd, function_args)
        ELSE IF b = "fopen" THEN fopen_branch(L, rcd, function_args)
        ELSE IF b = "open" THEN open_branch(L, rcd, function_args)
        ELSE IF b = "seek" THEN seek_branch(L, rcd, function_args)
        ELSE IF b = "close" THEN close_branch(L, rcd, function_args)
        ELSE IF b = "sync" THEN sync_branch(L, rcd, function_args)
        ELSE IF b = "fwrite_fread" THEN fwrite_fread_branch(L, rcd, function_args)
        ELSE IF b = "writev_readv" THEN writev_readv_branch(L, rcd, function_args)
        ELSE IF b = "pwrite_pread" THEN pwrite_pread_branch(L, rcd, function_args)
        ELSE IF b = "write_read" THEN write_read_branch(L, rcd, function_args)
        ELSE IF b = "fprintf" THEN fprintf_branch(L, rcd, function_args)
        ELSE L

\* one iteration of `for record in all_records`, up to the row it appends:
\* the locals at the end of the iteration, or at the raise
Iteration(fd_to_filename, fd_offset, eofs, rcd) ==
    LET func_name == FuncName(rcd.func_id)
        dec == DecodeArgs(rcd)
        function_args == dec.function_args
        L == Locals(fd_to_filename, fd_offset, eofs, dec.error)
        b == Branch(func_name, dec.error)
    IN  IF dec.raised # "" THEN Raise(L, dec.raised)
        ELSE IF b = "fdopen" THEN fdopen_branch(L, rcd, function_args)
        ELSE IF b = "fopen" THEN fopen_branch(L, rcd, function_args)
        ELSE IF b = "open" THEN open_branch(L, rcd, function_args)
        ELSE IF b = "seek" THEN seek_branch(L, rcd, function_args)
        ELSE IF b = "close" THEN close_branch(L, rcd, function_args)
        ELSE IF b = "sync" THEN sync_branch(L, rcd, function_args)
        ELSE IF b = "fwrite_fread" THEN fwrite_fread_branch(L, rcd, function_args)
        ELSE IF b = "writev_readv" THEN writev_readv_branch(L, rcd, function_args)
        ELSE IF b = "pwrite_pread" THEN pwrite_pread_branch(L, rcd, function_args)
        ELSE IF b = "write_read" THEN write_read_branch(L, rcd, function_args)
        ELSE IF b = "fprintf" THEN fprintf_branch(L, rcd, function_args)
        ELSE L

\* the row the iteration appends to records_as_dict
Row(rcd, L) ==
    LET func_name == FuncName(rcd.func_id)
    IN  [rank |-> rcd.rank,
         function_id |-> rcd.func_id,
         function_name |-> func_name,
         tstart |-> rcd.tstart,
         tend |-> rcd.tend,
         time |-> rcd.tend - rcd.tstart,
         arg_count |-> rcd.arg_count,
         args |-> DecodeArgs(rcd).function_args,
         return_value |-> rcd.res,
         file_name |-> L.filename,
         io_volume |-> L.io_size,
         error |-> L.error,
         offset |-> L.offset,
         function_type |-> function_type(func_name),
         IO_type |-> IO_type(func_name),
         IO_interface |-> IO_interface(func_name)]

(***************************************************************************)
(* State.                                                                  *)
(*   fd_to_filenames, fd_offsets  one dict per rank                        *)
(*   end_of_files                 one dict for all ranks                   *)
(*   record                       the record of the current iteration      *)
(*   row                          the row the last iteration appended      *)
(*   nrows                        the number of rows appended so far       *)
(*   pc                           "loop" inside the loop, "raised" once an *)
(*                                exception has left read()                *)
(* History variables, read by no action:                                   *)
(*   h_opened[rank]   an fdopen/fopen/open record of the rank was replayed *)
(*   h_closed[rank]   for each descriptor the rank has closed, the file it *)
(*                    was bound to at its last close                       *)
(*   h_seek_set       <<rank, fd, position>> when the iteration before the *)
(*                    last was a seek with whence 0 on an open descriptor, *)
(*                    else <<>>                                            *)
(*   h_max_end        for each file a transfer was reported on, the        *)
(*                    largest offset + io_volume of the rows of these      *)
(*                    transfers                                            *)
(* When read() runs whole, from the raw trace to the returned frame:       *)
(*   records          self.reader.records, the raw trace of each rank      *)
(*   all_records      the list read() sorts and loops over; an entry is    *)
(*                    <<rank, record_index>>, the reference to             *)
(*                    records[rank][record_index]                          *)
(*   records_as_dict  the rows appended so far, the returned dataframe     *)
(*   reads            the number of calls of read() that have returned     *)
(*   pc               also "collect" at the start of read(), "build" after *)
(*                    the sort, "returned" after the return                *)
(*   h_first          history: the rows the first call of read() returned  *)
(*   self_dataframe   self.dataframe of the IOFrame the last read()        *)
(*                    returned, NoFrame before it returns                  *)
(*   result           what the last call of a method of the returned       *)
(*                    IOFrame returned, NoResult when none was called      *)
(***************************************************************************)
VARIABLES fd_to_filenames, fd_offsets, end_of_files, record, row, nrows, pc,
          h_opened, h_closed, h_seek_set, h_max_end,
          records, all_records, records_as_dict, reads, h_first, result,
          self_dataframe

vars == <<fd_to_filenames, fd_offsets, end_of_files, record, row, nrows, pc,
          h_opened, h_closed, h_seek_set, h_max_end,
          records, all_records, records_as_dict, reads, h_first, result,
          self_dataframe>>

\* the variables of the loop alone
loop_vars == <<fd_to_filenames, fd_offsets, end_of_files, record, row, nrows>>

\* the history variables of the loop
loop_history == <<h_opened, h_closed, h_seek_set, h_max_end>>

\* the variables read() has besides those of the loop
read_vars == <<records, all_records, records_as_dict, reads, h_first, result,
               self_dataframe>>

\* range(self.reader.GM.total_ranks)
Ranks == {0, 1}

NoRecord == [rank |-> 0, func_id |-> -1, args |-> <<>>, res |-> 0, arg_count |-> 0,
             tstart |-> 0, tend |-> 0, decode |-> ""]

NoRow ==
    [rank |-> -1, function_id |-> -1, function_name |-> "", tstart |-> 0, tend |-> 0,
     time |-> 0, arg_count |-> 0, args |-> <<>>, return_value |-> 0, file_name |-> None,
     io_volume |-> None, error |-> None, offset |-> None, function_type |-> "",
     IO_type |-> "", IO_interface |-> ""]

\* A variant of StdFiles with one fault: descriptors 1 and 2 are swapped.
StdFiles_swapped == (0 :> "stdin") @@ (1 :> "stderr") @@ (2 :> "stdout")

\* the keys of records_as_dict, the columns of the frame read() returns
RecordColumns ==
    {"rank", "function_id", "function_name", "tstart", "tend", "time", "arg_count",
     "args", "return_value", "file_name", "io_volume", "error", "offset",
     "function_type", "IO_type", "IO_interface"}

\* pd.DataFrame.from_dict(...): the columns, and the rows under the index
\* 0, 1, ...; a row is a function of the columns
DataFrame(columns, rows) ==
    [columns |-> columns, index |-> [i \in 1..Len(rows) |-> i - 1], rows |-> rows]

\* no IOFrame has been returned
NoFrame == DataFrame({}, <<>>)

\* no method of the IOFrame has been called
NoResult == [call |-> ""]

\* the descriptors every rank's fd_to_filename starts with
StdFiles == (0 :> "stdin") @@ (1 :> "stdout") @@ (2 :> "stderr")

\* the offsets every rank's fd_offset starts with
StdOffsets == (0 :> 0) @@ (1 :> 0) @@ (2 :> 0)

\* the entries end_of_files starts with
StdEndOfFiles == ("stdin" :> 0) @@ ("stdout" :> 0) @@ ("stderr" :> 0)

\* the tables as read() builds them before the loop
Init ==
    /\ fd_to_filenames = [rank \in Ranks |-> StdFiles]
    /\ fd_offsets = [rank \in Ranks |-> StdOffsets]
    /\ end_of_files = StdEndOfFiles
    /\ record = NoRecord
    /\ row = NoRow
    /\ nrows = 0
    /\ pc = "loop"
    /\ h_opened = [rank \in Ranks |-> FALSE]
    /\ h_closed = [rank \in Ranks |-> <<>>]
    /\ h_seek_set = <<>>
    /\ h_max_end = <<>>
    /\ records = [rank \in Ranks |-> <<>>]
    /\ all_records = <<>>
    /\ records_as_dict = <<>>
    /\ reads = 0
    /\ h_first = <<>>
    /\ result = NoResult
    /\ self_dataframe = NoFrame

\* a raw record of the trace
Rec(rank, func_name, args, res, decode) ==
    [rank |-> rank, func_id |-> FuncId(func_name), args |-> args, res |-> res,
     arg_count |-> Len(args), tstart |-> 0, tend |-> 0, decode |-> decode]

\* the branch a raw record is handled by
BranchOf(rcd) == Branch(FuncName(rcd.func_id), DecodeArgs(rcd).error)

\* the descriptor a seek, close, sync, writev/readv, pwrite/pread, write/read
\* or fprintf record names, once its argument is parsed
NamedFd(rcd) == IntArg(rcd.args, 0)

\* the last iteration was a seek with whence 0 on an open descriptor
AfterSeekSet ==
    /\ pc = "loop"
    /\ nrows > 0
    /\ BranchOf(record) = "seek"
    /\ row.file_name # PyStr("__unknown__")
    /\ IntArg(record.args, 2) = 0

\* the row reports a transfer on a file that was found
IsTransferRow(rw) ==
    /\ rw.io_volume # None
    /\ rw.offset # None
    /\ rw.file_name # None
    /\ rw.file_name # PyStr("__unknown__")

\* h_max_end once the row rw is appended
MaxEnd(ends, rw) ==
    IF IsTransferRow(rw)
    THEN LET f == rw.file_name[2]
             end == rw.offset[2] + rw.io_volume[2]
         IN  DictSet(ends, f, IF f \in DOMAIN ends THEN max(ends[f], end) ELSE end)
    ELSE ends

\* one iteration of the loop on the record rcd
Replay(rcd) ==
    /\ pc = "loop"
    /\ nrows < MaxRecords
    /\ \E L \in {Iteration(fd_to_filenames[rcd.rank], fd_offsets[rcd.rank], end_of_files, rcd)} :
       \E b \in {BranchOf(rcd)} :
        /\ record' = rcd
        /\ fd_to_filenames' = [fd_to_filenames EXCEPT ![rcd.rank] = L.fd_to_filename]
        /\ fd_offsets' = [fd_offsets EXCEPT ![rcd.rank] = L.fd_offset]
        /\ end_of_files' = L.end_of_files
        /\ IF L.raised # ""
           THEN pc' = "raised" /\ UNCHANGED <<row, nrows>>
           ELSE pc' = "loop" /\ row' = Row(rcd, L) /\ nrows' = nrows + 1
        /\ h_opened' = IF b \in {"fdopen", "fopen", "open"}
                       THEN [h_opened EXCEPT ![rcd.rank] = TRUE]
                       ELSE h_opened
        /\ h_closed' = IF /\ b = "close"
                          /\ L.raised = ""
                          /\ NamedFd(rcd) \in DOMAIN fd_to_filenames[rcd.rank]
                       THEN [h_closed EXCEPT ![rcd.rank] =
                                DictSet(@, NamedFd(rcd), fd_to_filenames[rcd.rank][NamedFd(rcd)])]
                       ELSE h_closed
        /\ h_seek_set' = IF AfterSeekSet
                         THEN <<record.rank, NamedFd(record), IntArg(record.args, 1)>>
                         ELSE <<>>
        /\ h_max_end' = IF L.raised = "" THEN MaxEnd(h_max_end, Row(rcd, L)) ELSE h_max_end
        /\ UNCHANGED read_vars

(***************************************************************************)
(* The raw records the model replays, by the branch that handles them.     *)
(* Descriptor 1 is bound when the loop starts, 3 is bound by the open      *)
(* family only, 9 is never bound, "x" is no integer.                       *)
(***************************************************************************)
Paths == {"/a", "/b"}

DecodeErrorRecords ==
    {Rec(rank, "open", <<>>, 3, "UnicodeDecodeError") : rank \in Ranks}
    \cup {Rec(rank, "write", <<>>, 1, "AttributeError") : rank \in Ranks}

MpiH5Records ==
    {Rec(rank, "MPI_File_open", <<"1", "/a", "2">>, 0, "") : rank \in Ranks}
    \cup {Rec(rank, "MPI_File_write_at", <<"1", "0", "buf", "2">>, 0, "") : rank \in Ranks}
    \cup {Rec(rank, "H5Dread", <<"1", "buf", "2">>, 0, "") : rank \in Ranks}
    \cup {Rec(rank, "MPI_Barrier", <<"1">>, 0, "") : rank \in Ranks}

FdopenRecords ==
    {Rec(rank, "fdopen", <<old, "w">>, 3, "") : rank \in Ranks, old \in {"1", "9", "x"}}

FopenRecords ==
    {Rec(rank, "fopen", <<"/a", mode>>, 3, "") : rank \in Ranks, mode \in {"w", "a+"}}
    \cup {Rec(rank, "fopen", <<"/a">>, 3, "") : rank \in Ranks}

OpenRecords ==
    {Rec(rank, "open", <<path, flag>>, 3, "") :
        rank \in Ranks, path \in Paths, flag \in {"0", "2"}}
    \cup {Rec(rank, "open", <<"/b", "0">>, 1, "") : rank \in Ranks}
    \cup {Rec(rank, "open", <<"/a", flag>>, -1, "") : rank \in Ranks, flag \in {"0", "x"}}

SeekRecords ==
    {Rec(rank, "lseek", <<"1", delta, whence>>, 0, "") :
        rank \in Ranks, delta \in {"-1", "1"}, whence \in {"0", "1", "2"}}
    \cup {Rec(rank, "fseek", <<fd, "0", "0">>, 0, "") : rank \in Ranks, fd \in {"3", "9", "x"}}
    \cup {Rec(rank, "fseek", <<"1", "0">>, 0, "") : rank \in Ranks}

CloseRecords ==
    {Rec(rank, "close", <<fd>>, 0, "") : rank \in Ranks, fd \in {"1", "3", "9", "x"}}

SyncRecords ==
    {Rec(rank, "fsync", <<fd>>, 0, "") : rank \in Ranks, fd \in {"1", "9", "x"}}

FwriteFreadRecords ==
    {Rec(rank, "fwrite", <<"buf", "2", "1", fd>>, 1, "") : rank \in Ranks, fd \in {"3", "x"}}
    \cup {Rec(rank, "fread", <<"buf", "2", "1", "9">>, 1, "") : rank \in Ranks}

WritevReadvRecords ==
    {Rec(rank, "writev", <<"1", "2">>, 2, "") : rank \in Ranks}
    \cup {Rec(rank, "readv", <<"9", "2">>, 2, "") : rank \in Ranks}
    \cup {Rec(rank, "writev", <<"1">>, 2, "") : rank \in Ranks}

PwritePreadRecords ==
    {Rec(rank, "pwrite", <<"1", "buf", "2", at>>, 2, "") : rank \in Ranks, at \in {"-5", "-1", "1", "x"}}
    \cup {Rec(rank, "pread", <<fd, "buf", "2", "1">>, 2, "") : rank \in Ranks, fd \in {"1", "9"}}

WriteReadRecords ==
    {Rec(rank, "write", <<fd, "buf", n>>, 0, "") :
        rank \in Ranks, fd \in {"1", "3"}, n \in {"1", "2"}}
    \cup {Rec(rank, "read", <<fd, "buf", "1">>, 0, "") : rank \in Ranks, fd \in {"1", "9", "x"}}
    \cup {Rec(rank, "readlink", <<"/a", "buf", "2">>, 0, "") : rank \in Ranks}
    \cup {Rec(rank, "my_read_helper", <<"9", "buf", "1">>, 0, "") : rank \in Ranks}

FprintfRecords ==
    {Rec(rank, "fprintf", <<fd, "2">>, 2, "") : rank \in Ranks, fd \in {"1", "x"}}
    \cup {Rec(rank, "vfprintf", <<"9", "2">>, 2, "") : rank \in Ranks}

OtherRecords ==
    {Rec(rank, name, <<"/a">>, 0, "") : rank \in Ranks, name \in {"getcwd", "compute_kernel"}}

\* The calls of the ranks above 0.  Rank 0 replays every record above; the
\* other ranks replay the calls through which ranks meet, on the shared
\* end_of_files and on descriptors of the same number.
OtherRankCalls ==
    {<<"open", <<"/a", "0">>>>, <<"open", <<"/a", "2">>>>,
     <<"write", <<"3", "buf", "2">>>>, <<"write", <<"1", "buf", "1">>>>,
     <<"read", <<"9", "buf", "1">>>>, <<"lseek", <<"1", "-1", "2">>>>,
     <<"close", <<"3">>>>, <<"close", <<"1">>>>}

\* the record is one the model replays
InTrace(rcd) ==
    rcd.rank = 0 \/ <<FuncName(rcd.func_id), rcd.args>> \in OtherRankCalls

\* the record as the sorted all_records holds it at position nrows
At(rcd) == [rcd EXCEPT !.tstart = nrows, !.tend = nrows + 1]

(***************************************************************************)
(* One action per branch of the loop body.                                 *)
(***************************************************************************)
\* a record whose args_to_strs() raises one of the two caught exceptions
ReplayDecodeError ==
    \E rcd \in DecodeErrorRecords : InTrace(rcd) /\ rcd.decode # "" /\ Replay(At(rcd))

ReplayMpiH5 ==
    \E rcd \in MpiH5Records : InTrace(rcd) /\ BranchOf(rcd) = "mpi_h5" /\ Replay(At(rcd))

ReplayFdopen ==
    \E rcd \in FdopenRecords : InTrace(rcd) /\ BranchOf(rcd) = "fdopen" /\ Replay(At(rcd))

ReplayFopen ==
    \E rcd \in FopenRecords : InTrace(rcd) /\ BranchOf(rcd) = "fopen" /\ Replay(At(rcd))

ReplayOpen ==
    \E rcd \in OpenRecords : InTrace(rcd) /\ BranchOf(rcd) = "open" /\ Replay(At(rcd))

ReplaySeek ==
    \E rcd \in SeekRecords : InTrace(rcd) /\ BranchOf(rcd) = "seek" /\ Replay(At(rcd))

ReplayClose ==
    \E rcd \in CloseRecords : InTrace(rcd) /\ BranchOf(rcd) = "close" /\ Replay(At(rcd))

ReplaySync ==
    \E rcd \in SyncRecords : InTrace(rcd) /\ BranchOf(rcd) = "sync" /\ Replay(At(rcd))

ReplayFwriteFread ==
    \E rcd \in FwriteFreadRecords : InTrace(rcd) /\ BranchOf(rcd) = "fwrite_fread" /\ Replay(At(rcd))

ReplayWritevReadv ==
    \E rcd \in WritevReadvRecords : InTrace(rcd) /\ BranchOf(rcd) = "writev_readv" /\ Replay(At(rcd))

ReplayPwritePread ==
    \E rcd \in PwritePreadRecords : InTrace(rcd) /\ BranchOf(rcd) = "pwrite_pread" /\ Replay(At(rcd))

ReplayWriteRead ==
    \E rcd \in WriteReadRecords : InTrace(rcd) /\ BranchOf(rcd) = "write_read" /\ Replay(At(rcd))

ReplayFprintf ==
    \E rcd \in FprintfRecords : InTrace(rcd) /\ BranchOf(rcd) = "fprintf" /\ Replay(At(rcd))

ReplayOther ==
    \E rcd \in OtherRecords : InTrace(rcd) /\ BranchOf(rcd) = "none" /\ Replay(At(rcd))

Next ==
    \/ ReplayDecodeError
    \/ ReplayMpiH5
    \/ ReplayFdopen
    \/ ReplayFopen
    \/ ReplayOpen
    \/ ReplaySeek
    \/ ReplayClose
    \/ ReplaySync
    \/ ReplayFwriteFread
    \/ ReplayWritevReadv
    \/ ReplayPwritePread
    \/ ReplayWriteRead
    \/ ReplayFprintf
    \/ ReplayOther

Spec == Init /\ [][Next]_vars

(***************************************************************************)
(* read() as a whole: the records of all ranks are collected and sorted by *)
(* tstart, the tables are built, the loop replays every record, and the    *)
(* frame is returned.  read() is then called again on the same trace.      *)
(***************************************************************************)
\* the values of tstart in the raw traces
Tstarts == {0, 1}

\* the raw record rcd, called at time t
Stamp(rcd, t) == [rcd EXCEPT !.tstart = t, !.tend = t + 1]

\* the raw records a rank's trace is made of.  On both ranks a write of one
\* byte on descriptor 1, at either time.  Rank 0, collected first, looks at
\* the end of a file at the later time: a seek of descriptor 1 to one
\* before the end of stdout, an append open of /a.  Rank 1, collected last,
\* acts at the earlier time: an open of /a, a write of two bytes on the
\* descriptor that open returns, a close whose argument is no integer.
RawRecords(rank) ==
    {Stamp(Rec(rank, "write", <<"1", "buf", "1">>, 1, ""), t) : t \in Tstarts}
    \cup IF rank = 0
         THEN {Stamp(Rec(rank, "lseek", <<"1", "-1", "2">>, 0, ""), 1),
               Stamp(Rec(rank, "open", <<"/a", "2">>, 3, ""), 1)}
         ELSE {Stamp(Rec(rank, "open", <<"/a", "0">>, 3, ""), 0),
               Stamp(Rec(rank, "write", <<"3", "buf", "2">>, 2, ""), 0),
               Stamp(Rec(rank, "close", <<"x">>, 0 - 1, ""), 0)}

\* the raw traces of a rank
Traces(rank) == UNION {[1..n -> RawRecords(rank)] : n \in 0..MaxTraceLen}

\* the raw record a reference of all_records names
Deref(recs, ref) == recs[ref[1]][ref[2]]

\* for rank ...: for record_index ...: all_records.append(record)
RECURSIVE CollectRecords(_, _)
CollectRecords(recs, rank) ==
    IF rank \notin DOMAIN recs THEN <<>>
    ELSE [record_index \in 1..Len(recs[rank]) |-> <<rank, record_index>>]
         \o CollectRecords(recs, rank + 1)

\* A variant of Insert with one fault: the record goes before the records
\* of the same tstart, so that the sort is not stable.
Insert_before_equal(recs, sorted_refs, ref) ==
    LET k == Cardinality({i \in 1..Len(sorted_refs) :
                            Deref(recs, sorted_refs[i]).tstart < Deref(recs, ref).tstart})
    IN  SubSeq(sorted_refs, 1, k) \o <<ref>> \o SubSeq(sorted_refs, k + 1, Len(sorted_refs))

\* one insertion of the stable sort: the record goes after every record
\* whose tstart is not larger
Insert(recs, sorted_refs, ref) ==
    LET k == Cardinality({i \in 1..Len(sorted_refs) :
                            Deref(recs, sorted_refs[i]).tstart <= Deref(recs, ref).tstart})
    IN  SubSeq(sorted_refs, 1, k) \o <<ref>> \o SubSeq(sorted_refs, k + 1, Len(sorted_refs))

\* A variant of sorted with one fault: the records are sorted rank by rank,
\* the records of a rank staying after those of the ranks below it.
RECURSIVE sorted_rank_by_rank(_, _)
sorted_rank_by_rank(recs, refs) ==
    IF refs = <<>> THEN <<>>
    ELSE LET ref == refs[Len(refs)]
             sorted_refs == sorted_rank_by_rank(recs, SubSeq(refs, 1, Len(refs) - 1))
             k == Cardinality({i \in 1..Len(sorted_refs) :
                     \/ sorted_refs[i][1] < ref[1]
                     \/ /\ sorted_refs[i][1] = ref[1]
                        /\ Deref(recs, sorted_refs[i]).tstart <= Deref(recs, ref).tstart})
         IN  SubSeq(sorted_refs, 1, k) \o <<ref>> \o SubSeq(sorted_refs, k + 1, Len(sorted_refs))

\* sorted(all_records, key=lambda x: x.tstart)
RECURSIVE sorted(_, _)
sorted(recs, refs) ==
    IF refs = <<>> THEN <<>>
    ELSE Insert(recs, sorted(recs, SubSeq(refs, 1, Len(refs) - 1)), refs[Len(refs)])

\* A variant of FreshFdOffsets with one fault: the dicts are built by the
\* first call of read() and kept for the later ones.
FdOffsets_built_once ==
    IF fd_offsets = <<>> THEN [rank \in Ranks |-> StdOffsets] ELSE fd_offsets

\* [{0: 0, 1: 0, 2: 0} for _ in range(total_ranks)]
FreshFdOffsets == [rank \in Ranks |-> StdOffsets]

\* [{0: "stdin", 1: "stdout", 2: "stderr"} for _ in range(total_ranks)]
FreshFdToFilenames == [rank \in Ranks |-> StdFiles]

\* before the first call of read(): a raw trace, and no table yet
InitRead ==
    /\ records \in {recs \in [Ranks -> UNION {Traces(rank) : rank \in Ranks}] :
                        \A rank \in Ranks : recs[rank] \in Traces(rank)}
    /\ all_records = <<>>
    /\ records_as_dict = <<>>
    /\ reads = 0
    /\ h_first = <<>>
    /\ result = NoResult
    /\ self_dataframe = NoFrame
    /\ fd_to_filenames = <<>>
    /\ fd_offsets = <<>>
    /\ end_of_files = <<>>
    /\ record = NoRecord
    /\ row = NoRow
    /\ nrows = 0
    /\ pc = "collect"
    /\ h_opened = [rank \in Ranks |-> FALSE]
    /\ h_closed = [rank \in Ranks |-> <<>>]
    /\ h_seek_set = <<>>
    /\ h_max_end = <<>>

\* all_records is filled rank by rank and sorted
CollectAndSort ==
    /\ pc = "collect"
    /\ all_records' = sorted(records, CollectRecords(records, 0))
    /\ pc' = "build"
    /\ UNCHANGED <<loop_vars, loop_history, records, records_as_dict, reads, h_first, result,
                   self_dataframe>>

\* records_as_dict is emptied and the three tables are built
BuildTables ==
    /\ pc = "build"
    /\ records_as_dict' = <<>>
    /\ fd_to_filenames' = FreshFdToFilenames
    /\ fd_offsets' = FreshFdOffsets
    /\ end_of_files' = StdEndOfFiles
    /\ nrows' = 0
    /\ pc' = "loop"
    /\ UNCHANGED <<record, row, loop_history, records, all_records, reads, h_first, result,
                   self_dataframe>>

\* one iteration of `for record in all_records`
ReplayRecord ==
    /\ pc = "loop"
    /\ nrows < Len(all_records)
    /\ \E rcd \in {Deref(records, all_records[nrows + 1])} :
       \E L \in {Iteration(fd_to_filenames[rcd.rank], fd_offsets[rcd.rank], end_of_files, rcd)} :
        /\ record' = rcd
        /\ fd_to_filenames' = [fd_to_filenames EXCEPT ![rcd.rank] = L.fd_to_filename]
        /\ fd_offsets' = [fd_offsets EXCEPT ![rcd.rank] = L.fd_offset]
        /\ end_of_files' = L.end_of_files
        /\ IF L.raised # ""
           THEN pc' = "raised" /\ UNCHANGED <<row, nrows, records_as_dict>>
           ELSE /\ pc' = "loop"
                /\ row' = Row(rcd, L)
                /\ nrows' = nrows + 1
                /\ records_as_dict' = Append(records_as_dict, Row(rcd, L))
    /\ UNCHANGED <<loop_history, records, all_records, reads, h_first, result,
                   self_dataframe>>

\* return IOFrame(dataframe, metadata)
Return ==
    /\ pc = "loop"
    /\ nrows = Len(all_records)
    /\ pc' = "returned"
    /\ reads' = reads + 1
    /\ h_first' = IF reads = 0 THEN records_as_dict ELSE h_first
    /\ self_dataframe' = DataFrame(RecordColumns, records_as_dict)
    /\ UNCHANGED <<loop_vars, loop_history, records, all_records, records_as_dict, result>>

\* read() is called again on the same reader
ReadAgain ==
    /\ pc = "returned"
    /\ reads < MaxReads
    /\ pc' = "collect"
    /\ result' = NoResult
    /\ self_dataframe' = NoFrame
    /\ UNCHANGED <<loop_vars, loop_history, records, all_records, records_as_dict, reads, h_first>>

(***************************************************************************)
(* The methods of the IOFrame read() returns.                              *)
(***************************************************************************)
\* the run times end_timestamp - start_timestamp of the ranks, rank 0 first
RunTimes == {<<2, 3>>}

\* the metadata frames of read(): one row per rank, with its run time
Metadatas ==
    {DataFrame({"rank", "time"},
               [i \in 1..Cardinality(Ranks) |-> [rank |-> i - 1, time |-> t[i]]]) :
        t \in RunTimes}

\* Python `sub in s` on two str, for any two strings of Chars
StrIn(sub, s) == \E c \in {Chars} : Substring(c[sub], c[s])

\* df[column].sum()
RECURSIVE ColumnSum(_, _)
ColumnSum(rows, column) ==
    IF rows = <<>> THEN 0 ELSE rows[1][column] + ColumnSum(Tail(rows), column)

\* the positions from i on at which the boolean Series mask is True
RECURSIVE MaskPositions(_, _)
MaskPositions(mask, i) ==
    IF i > Len(mask) THEN <<>>
    ELSE (IF mask[i] THEN <<i>> ELSE <<>>) \o MaskPositions(mask, i + 1)

\* df[mask]: the rows for which the mask is True, under their old index
BooleanIndex(df, mask) ==
    LET kept == MaskPositions(mask, 1)
    IN  [columns |-> df.columns,
         index |-> [k \in 1..Len(kept) |-> df.index[kept[k]]],
         rows |-> [k \in 1..Len(kept) |-> df.rows[kept[k]]]]

\* df.reset_index(): the old index becomes the column "index"
reset_index(df) ==
    [columns |-> df.columns \cup {"index"},
     index |-> [k \in 1..Len(df.rows) |-> k - 1],
     rows |-> [k \in 1..Len(df.rows) |-> ("index" :> df.index[k]) @@ df.rows[k]]]

\* df.drop(column, axis=1)
drop(df, column) ==
    [columns |-> df.columns \ {column},
     index |-> df.index,
     rows |-> [k \in 1..Len(df.rows) |->
                 [c \in DOMAIN df.rows[k] \ {column} |-> df.rows[k][c]]]]

\* IOFrame.percentage(function_type) with by_rank and by_file False: the
\* quotient time / total_runtime as <<time, total_runtime>>
percentage(dataframe, metadata, function_type_arg) ==
    LET types == IF function_type_arg = "io" THEN "write,read,other_io" ELSE function_type_arg
        selected == [i \in 1..Len(dataframe.rows) |->
                        StrIn(dataframe.rows[i].function_type, types)]
        total_runtime == ColumnSum(metadata.rows, "time")
        time == ColumnSum(BooleanIndex(dataframe, selected).rows, "time")
    IN  <<time, total_runtime>>

\* the functions passed to filter
Lambdas == {"'write' in x['function_name']", "x['rank'] > 0", "x['tstart'] > 0"}

\* my_lambda(x) for the row x
Apply(my_lambda, x) ==
    CASE my_lambda = "'write' in x['function_name']" -> In("write", x.function_name)
      [] my_lambda = "x['rank'] > 0" -> x.rank > 0
      [] my_lambda = "x['tstart'] > 0" -> x.tstart > 0

\* filter without its reset_index and drop: the rows keep their old index
filter_without_reset_index(dataframe, metadata, my_lambda) ==
    LET mask == [i \in 1..Len(dataframe.rows) |-> Apply(my_lambda, dataframe.rows[i])]
    IN  [dataframe |-> BooleanIndex(dataframe, mask), metadata |-> metadata]

\* IOFrame.filter(my_lambda)
filter(dataframe, metadata, my_lambda) ==
    LET mask == [i \in 1..Len(dataframe.rows) |-> Apply(my_lambda, dataframe.rows[i])]
    IN  [dataframe |-> drop(reset_index(BooleanIndex(dataframe, mask)), "index"),
         metadata |-> metadata]

\* io_frame.percentage(function_type) on the returned frame
CallPercentage ==
    /\ pc = "returned"
    /\ \E metadata \in Metadatas : \E function_type_arg \in {"io", "I/O"} :
          result' = [call |-> "percentage",
                     metadata |-> metadata,
                     function_type |-> function_type_arg,
                     value |-> percentage(self_dataframe, metadata, function_type_arg)]
    /\ UNCHANGED <<pc, loop_vars, loop_history, records, all_records, records_as_dict,
                   reads, h_first, self_dataframe>>

\* io_frame.filter(my_lambda) on the returned frame
CallFilter ==
    /\ pc = "returned"
    /\ \E metadata \in Metadatas : \E my_lambda \in Lambdas :
          result' = [call |-> "filter",
                     metadata |-> metadata,
                     my_lambda |-> my_lambda,
                     value |-> filter(self_dataframe, metadata, my_lambda)]
    /\ UNCHANGED <<pc, loop_vars, loop_history, records, all_records, records_as_dict,
                   reads, h_first, self_dataframe>>

\* check_library(function) of function_count_by_library
check_library(function) ==
    IF In("H5", function) THEN "hdf5"
    ELSE IF In("MPI", function) THEN "mpi"
    ELSE "posix"

\* df["library"] = df["function_name"].apply(check_library), on df itself
set_library(df) ==
    [columns |-> df.columns \cup {"library"},
     index |-> df.index,
     rows |-> [k \in 1..Len(df.rows) |->
                 ("library" :> check_library(df.rows[k].function_name)) @@ df.rows[k]]]

\* groupby(["library", "rank"]).agg({"library": "count"}), the column
\* renamed: for each library and rank with a row, the number of its rows
library_call_count(df) ==
    LET groups == {<<df.rows[k].library, df.rows[k].rank>> : k \in 1..Len(df.rows)}
    IN  [g \in groups |->
            [library_call_count |->
                Cardinality({k \in 1..Len(df.rows) :
                                <<df.rows[k].library, df.rows[k].rank>> = g})]]

\* IOFrame.function_count_by_library() with rank and agg_function None:
\* self.dataframe as the call leaves it, and the frame it returns.  The
\* drop of the column 'library' returns a new frame, which is discarded.
function_count_by_library(dataframe) ==
    LET with_library == set_library(dataframe)
        dropped == drop(with_library, "library")
    IN  [self_dataframe |-> with_library,
         value |-> library_call_count(with_library)]

\* io_frame.function_count_by_library() on the returned frame
CallFunctionCountByLibrary ==
    /\ pc = "returned"
    /\ \E out \in {function_count_by_library(self_dataframe)} :
          /\ self_dataframe' = out.self_dataframe
          /\ result' = [call |-> "function_count_by_library", value |-> out.value]
    /\ UNCHANGED <<pc, loop_vars, loop_history, records, all_records, records_as_dict,
                   reads, h_first>>

NextRead ==
    \/ CollectAndSort
    \/ BuildTables
    \/ ReplayRecord
    \/ Return
    \/ ReadAgain
    \/ CallPercentage
    \/ CallFilter
    \/ CallFunctionCountByLibrary

SpecRead == InitRead /\ [][NextRead]_vars

(***************************************************************************)
(* Vocabulary of the properties.  In a step of Next, record' is the raw    *)
(* record the step replays; the step appends row' unless it raises.        *)
(***************************************************************************)
\* the step appends a row: the iteration ran to its end
Appends == nrows' = nrows + 1

\* the name of the function a raw record calls
NameOf(rcd) == FuncName(rcd.func_id)

\* the record calls the function and its arguments decode
Calls(rcd, func_name) == rcd.decode = "" /\ NameOf(rcd) = func_name

\* the branches that look a descriptor up in fd_to_filename
DescriptorBranches ==
    {"seek", "close", "sync", "fwrite_fread", "writev_readv", "pwrite_pread",
     "write_read", "fprintf"}

\* the branches that transfer at the running offset of the descriptor
RunningOffsetBranches == {"fwrite_fread", "writev_readv", "write_read", "fprintf"}

\* the position, from 0, of the descriptor among the arguments of a branch
FdArgIndex(b) == IF b = "fwrite_fread" THEN 3 ELSE 0

\* the positions, from 0, of the arguments a branch parses with int()
IntArgIndices(b) ==
    CASE b = "fdopen" -> {0}
      [] b = "open" -> {1}
      [] b = "seek" -> {0, 1, 2}
      [] b = "close" -> {0}
      [] b = "sync" -> {0}
      [] b = "fwrite_fread" -> {1, 2, 3}
      [] b = "writev_readv" -> {0, 1}
      [] b = "pwrite_pread" -> {0, 2, 3}
      [] b = "write_read" -> {0, 2}
      [] b = "fprintf" -> {0, 1}
      [] OTHER -> {}

\* an argument the branch parses with int() is missing or no integer
HasBadIntArg(rcd) ==
    /\ rcd.decode = ""
    /\ \E i \in IntArgIndices(BranchOf(rcd)) :
          i >= Len(rcd.args) \/ ~IsIntLiteral(rcd.args[i + 1])

\* the descriptor a record of a descriptor branch names
FdOf(rcd) == int(rcd.args[FdArgIndex(BranchOf(rcd)) + 1])

\* the record is an fdopen/fopen/open of the rank that returns fd
OpenFamilyReturning(rcd, rank, fd) ==
    /\ BranchOf(rcd) \in {"fdopen", "fopen", "open"}
    /\ rcd.rank = rank
    /\ rcd.res = fd

\* the record is a close of the rank that names fd
CloseOf(rcd, rank, fd) ==
    /\ BranchOf(rcd) = "close"
    /\ rcd.rank = rank
    /\ ~HasBadIntArg(rcd)
    /\ FdOf(rcd) = fd

\* the record is an fopen with 'a' in its mode or an open with flag 2
IsAppendOpen(rcd) ==
    /\ Len(rcd.args) >= 2
    /\ \/ BranchOf(rcd) = "fopen" /\ In("a", rcd.args[2])
       \/ BranchOf(rcd) = "open" /\ IsIntLiteral(rcd.args[2]) /\ int(rcd.args[2]) = 2

\* the end-of-file of a file, 0 for a file never seen
EofOf(eofs, filename) == IF filename \in DOMAIN eofs THEN eofs[filename] ELSE 0

(***************************************************************************)
(* C1: a descriptor rebound by open/fopen resolves to the new file.        *)
(* Every step satisfies: (1) an open/fopen of path g returning d leaves d  *)
(* bound to g, at offset 0 or, in append mode, at g's end-of-file; (2) the *)
(* file a descriptor is bound to changes only in a step that is an         *)
(* open-family call returning it or a close naming it; (3) an operation on *)
(* a bound descriptor reports the file the descriptor is bound to, and a   *)
(* transfer reports its running offset.  So after close(d) and a later     *)
(* open of g returning d, every operation on d resolves to g.              *)
(***************************************************************************)
C1_Step ==
    LET rcd == record'
        r == rcd.rank
        b == BranchOf(rcd)
    IN  /\ (b \in {"fopen", "open"} /\ Appends) =>
              LET g == rcd.args[1]
                  d == rcd.res
              IN  /\ d \in DOMAIN fd_to_filenames'[r]
                  /\ fd_to_filenames'[r][d] = g
                  /\ fd_offsets'[r][d] =
                        IF IsAppendOpen(rcd) THEN EofOf(end_of_files, g) ELSE 0
        /\ \A rank \in Ranks : \A d \in DOMAIN fd_to_filenames[rank] :
              (~OpenFamilyReturning(rcd, rank, d) /\ ~CloseOf(rcd, rank, d)) =>
                  /\ d \in DOMAIN fd_to_filenames'[rank]
                  /\ fd_to_filenames'[rank][d] = fd_to_filenames[rank][d]
        /\ (b \in DescriptorBranches /\ Appends /\ FdOf(rcd) \in DOMAIN fd_to_filenames[r]) =>
              /\ row'.file_name = PyStr(fd_to_filenames[r][FdOf(rcd)])
              /\ b \in RunningOffsetBranches =>
                    row'.offset = PyInt(fd_offsets[r][FdOf(rcd)])

C1_RebindAfterClose == [][C1_Step]_vars

\* descriptor 1 was closed while bound to stdout, an open of /b returned 1,
\* and the write on 1 that followed is reported on /b from offset 0
C1_Witness ==
    /\ pc = "loop"
    /\ nrows = 3
    /\ Calls(record, "write")
    /\ record.args[1] = "1"
    /\ 1 \in DOMAIN h_closed[record.rank]
    /\ h_closed[record.rank][1] = "stdout"
    /\ 1 \in DOMAIN fd_to_filenames[record.rank]
    /\ fd_to_filenames[record.rank][1] = "/b"
    /\ row.file_name = PyStr("/b")
    /\ row.offset = PyInt(0)

(***************************************************************************)
(* C2: an fopen whose mode contains 'a', or an open whose flag is 2,       *)
(* binds the returned descriptor at the file's end-of-file at that moment  *)
(* (0 for a file never seen); every other open/fopen binds it at offset 0. *)
(***************************************************************************)
C2_Step ==
    LET rcd == record'
        r == rcd.rank
        d == rcd.res
    IN  BranchOf(rcd) \in {"fopen", "open"} =>
            /\ d \in DOMAIN fd_offsets'[r]
            /\ IsAppendOpen(rcd) => fd_offsets'[r][d] = EofOf(end_of_files, rcd.args[1])
            /\ ~IsAppendOpen(rcd) => fd_offsets'[r][d] = 0

C2_AppendOffset == [][C2_Step]_vars

\* an open with flag 2 of /a, whose end-of-file a write had raised to 2,
\* has bound descriptor 3 at offset 2
C2_Witness ==
    /\ pc = "loop"
    /\ nrows = 3
    /\ Calls(record, "open")
    /\ record.args = <<"/a", "2">>
    /\ "/a" \in DOMAIN end_of_files
    /\ end_of_files["/a"] = 2
    /\ fd_offsets[record.rank][3] = 2

(***************************************************************************)
(* C3: on an open descriptor d bound to f, seek(d, p, 0) followed by       *)
(* read(d, buf, n), for p >= 0 and n >= 0: the seek leaves every           *)
(* end-of-file as it was; the read is reported at offset p with io volume  *)
(* n, leaves d at p + n, and leaves f's end-of-file at the larger of its   *)
(* prior value and p + n.                                                  *)
(***************************************************************************)
C3_Step ==
    LET rcd == record'
    IN  /\ (BranchOf(rcd) = "seek" /\ Appends) => end_of_files' = end_of_files
        /\ ( /\ AfterSeekSet
             /\ Calls(rcd, "read")
             /\ Appends
             /\ rcd.rank = record.rank
             /\ FdOf(rcd) = FdOf(record)
             /\ int(record.args[2]) >= 0
             /\ int(rcd.args[3]) >= 0 ) =>
              LET r == rcd.rank
                  d == FdOf(rcd)
                  p == int(record.args[2])
                  n == int(rcd.args[3])
                  f == fd_to_filenames[r][d]
                  E == end_of_files[f]
              IN  /\ fd_offsets[r][d] = p
                  /\ row'.file_name = PyStr(f)
                  /\ row'.offset = PyInt(p)
                  /\ row'.io_volume = PyInt(n)
                  /\ fd_offsets'[r][d] = p + n
                  /\ end_of_files'[f] = IF p + n <= E THEN E ELSE p + n

C3_SeekSetThenRead == [][C3_Step]_vars

\* after a write of 2 on descriptor 1, a seek to 1 and a read of 1: the
\* read is reported at offset 1, the descriptor is at 2, end-of-file stays 2
C3_Witness ==
    /\ pc = "loop"
    /\ nrows = 3
    /\ Calls(record, "read")
    /\ h_seek_set = <<record.rank, 1, 1>>
    /\ record.args = <<"1", "buf", "1">>
    /\ row.offset = PyInt(1)
    /\ row.io_volume = PyInt(1)
    /\ fd_offsets[record.rank][1] = 2
    /\ end_of_files["stdout"] = 2

(***************************************************************************)
(* C4: open(path, non-append flag) returning fd, write(fd, buf, n),        *)
(* close(fd), for a path with no end-of-file yet.  Every step satisfies:   *)
(* such an open is reported on path with offset and io volume None and     *)
(* binds fd to path at offset 0 with end-of-file 0; a write of n >= 0 on a *)
(* descriptor at offset 0 of a file whose end-of-file is 0 is reported on  *)
(* that file at offset 0 with io volume n and leaves its end-of-file at n; *)
(* a close of a bound descriptor is reported on its file, removes the      *)
(* descriptor from both dicts and leaves every end-of-file as it was.      *)
(***************************************************************************)
C4_Step ==
    LET rcd == record'
        r == rcd.rank
    IN  Appends =>
        /\ ( /\ Calls(rcd, "open")
             /\ ~IsAppendOpen(rcd)
             /\ rcd.args[1] \notin DOMAIN end_of_files ) =>
              /\ row'.file_name = PyStr(rcd.args[1])
              /\ row'.offset = None
              /\ row'.io_volume = None
              /\ fd_to_filenames'[r][rcd.res] = rcd.args[1]
              /\ fd_offsets'[r][rcd.res] = 0
              /\ end_of_files'[rcd.args[1]] = 0
        /\ ( /\ Calls(rcd, "write")
             /\ FdOf(rcd) \in DOMAIN fd_to_filenames[r]
             /\ fd_offsets[r][FdOf(rcd)] = 0
             /\ end_of_files[fd_to_filenames[r][FdOf(rcd)]] = 0
             /\ int(rcd.args[3]) >= 0 ) =>
              /\ row'.file_name = PyStr(fd_to_filenames[r][FdOf(rcd)])
              /\ row'.offset = PyInt(0)
              /\ row'.io_volume = PyInt(int(rcd.args[3]))
              /\ fd_to_filenames' = fd_to_filenames
              /\ end_of_files'[fd_to_filenames[r][FdOf(rcd)]] = int(rcd.args[3])
        /\ ( /\ Calls(rcd, "close")
             /\ FdOf(rcd) \in DOMAIN fd_to_filenames[r] ) =>
              /\ row'.file_name = PyStr(fd_to_filenames[r][FdOf(rcd)])
              /\ FdOf(rcd) \notin DOMAIN fd_to_filenames'[r]
              /\ FdOf(rcd) \notin DOMAIN fd_offsets'[r]
              /\ end_of_files' = end_of_files

C4_OpenWriteClose == [][C4_Step]_vars

\* three rows: descriptor 3 was bound to /a, 2 bytes were written through
\* it, and the close of 3, reported on /a, has removed it; end-of-file 2
C4_Witness ==
    /\ pc = "loop"
    /\ nrows = 3
    /\ Calls(record, "close")
    /\ record.args = <<"3">>
    /\ row.file_name = PyStr("/a")
    /\ 3 \notin DOMAIN fd_to_filenames[record.rank]
    /\ 3 \notin DOMAIN fd_offsets[record.rank]
    /\ 3 \in DOMAIN h_closed[record.rank]
    /\ h_closed[record.rank][3] = "/a"
    /\ "/a" \in DOMAIN end_of_files
    /\ end_of_files["/a"] = 2

(***************************************************************************)
(* C5: a read or write on a descriptor that is not open on its rank is     *)
(* reported on '__unknown__' at offset -1 with an error, and every read or *)
(* write row, on an open descriptor or not, is classified I/O, read or     *)
(* write by its name, POSIX.                                               *)
(***************************************************************************)
C5_UnknownDescriptor ==
    (pc = "loop" /\ nrows > 0 /\ NameOf(record) \in {"read", "write"} /\ record.decode = "") =>
        /\ row.function_type = "I/O"
        /\ row.IO_type = NameOf(record)
        /\ row.IO_interface = "POSIX"
        /\ FdOf(record) \notin DOMAIN fd_to_filenames[record.rank] =>
              /\ row.file_name = PyStr("__unknown__")
              /\ row.offset = PyInt(-1)
              /\ row.error # None

\* a read on descriptor 9, which no record binds, has been reported
C5_Witness ==
    /\ pc = "loop"
    /\ nrows > 0
    /\ Calls(record, "read")
    /\ record.args = <<"9", "buf", "1">>
    /\ row.file_name = PyStr("__unknown__")
    /\ row.offset = PyInt(-1)
    /\ row.IO_type = "read"

(***************************************************************************)
(* C6: in the rows read() has appended, the rows of one rank are in        *)
(* non-decreasing tstart, and two rows of one rank with the same tstart    *)
(* are in the order of their records in the rank's raw trace.  Row i is    *)
(* the row of the record all_records[i] refers to.                         *)
(***************************************************************************)
C6_PerRankOrder ==
    pc \in {"loop", "raised", "returned"} =>
        /\ Len(records_as_dict) <= Len(all_records)
        /\ pc = "returned" => Len(records_as_dict) = Len(all_records)
        /\ \A i \in 1..Len(records_as_dict) :
              /\ records_as_dict[i].rank = all_records[i][1]
              /\ records_as_dict[i].tstart = Deref(records, all_records[i]).tstart
              /\ records_as_dict[i].function_id = Deref(records, all_records[i]).func_id
        /\ \A i, j \in 1..Len(records_as_dict) :
              (i < j /\ records_as_dict[i].rank = records_as_dict[j].rank) =>
                  /\ records_as_dict[i].tstart <= records_as_dict[j].tstart
                  /\ records_as_dict[i].tstart = records_as_dict[j].tstart =>
                        all_records[i][2] < all_records[j][2]

\* read() has returned four rows; the raw trace of rank 0 has its later
\* record first, and the two records of rank 1 have the same tstart
C6_Witness ==
    /\ pc = "returned"
    /\ Len(records_as_dict) = 4
    /\ Len(records[0]) = 2
    /\ records[0][1].tstart > records[0][2].tstart
    /\ Len(records[1]) = 2
    /\ records[1][1].tstart = records[1][2].tstart
    /\ records[1][1].func_id # records[1][2].func_id

(***************************************************************************)
(* C7: a second call of read() on the same raw trace, which builds its     *)
(* tables afresh, appends the rows the first call returned, field for      *)
(* field, and returns the same rows.                                       *)
(***************************************************************************)
C7_ReplayTwice ==
    (reads >= 1 /\ pc \in {"loop", "raised", "returned"}) =>
        /\ pc # "raised"
        /\ Len(records_as_dict) <= Len(h_first)
        /\ \A i \in 1..Len(records_as_dict) : records_as_dict[i] = h_first[i]
        /\ pc = "returned" => records_as_dict = h_first

\* the second call has returned; in both calls rank 0 wrote twice on
\* descriptor 1, the second write from offset 1
C7_Witness ==
    /\ pc = "returned"
    /\ reads = 2
    /\ Len(records_as_dict) >= 2
    /\ \E i \in 1..Len(records_as_dict) :
          /\ records_as_dict[i].rank = 0
          /\ records_as_dict[i].function_name = "write"
          /\ records_as_dict[i].offset = PyInt(1)
    /\ records_as_dict = h_first

(***************************************************************************)
(* C8, as stated: for every rank for which no fdopen, fopen or open has    *)
(* been replayed, descriptors 0, 1 and 2 are bound to stdin, stdout and    *)
(* stderr, after every sequence of records.  A close of 0, 1 or 2 removes  *)
(* the descriptor, so this does not hold.                                  *)
(***************************************************************************)
StdNames == <<"stdin", "stdout", "stderr">>

C8_StdUntilOpenFamily ==
    \A rank \in Ranks : ~h_opened[rank] =>
        \A d \in {0, 1, 2} :
            /\ d \in DOMAIN fd_to_filenames[rank]
            /\ fd_to_filenames[rank][d] = StdNames[d + 1]

(***************************************************************************)
(* C8, amended: for every rank for which no fdopen, fopen or open has been *)
(* replayed, each of the descriptors 0, 1 and 2 that the rank has not      *)
(* closed is bound to stdin, stdout and stderr respectively.               *)
(***************************************************************************)
C8_StdUntilOpenFamilyOrClose ==
    \A rank \in Ranks : ~h_opened[rank] =>
        \A d \in {0, 1, 2} : d \notin DOMAIN h_closed[rank] =>
            /\ d \in DOMAIN fd_to_filenames[rank]
            /\ fd_to_filenames[rank][d] = StdNames[d + 1]

\* three records of a rank that has replayed no open-family call and has
\* not closed descriptor 1: the last, a write on 1, is reported on stdout,
\* and the descriptor has moved from offset 0
C8_Witness ==
    /\ pc = "loop"
    /\ nrows = 3
    /\ Calls(record, "write")
    /\ record.args[1] = "1"
    /\ ~h_opened[record.rank]
    /\ 1 \notin DOMAIN h_closed[record.rank]
    /\ row.file_name = PyStr("stdout")
    /\ fd_offsets[record.rank][1] > 2

(***************************************************************************)
(* C9: a record whose arguments decode but one of whose integer-expected   *)
(* arguments is missing or non-numeric does not abort the replay: the loop *)
(* goes on, and the record is reported on '__unknown__' with an error.     *)
(* int() raises on such an argument and nothing catches it, so this does   *)
(* not hold.                                                               *)
(***************************************************************************)
C9_BadIntArgDoesNotAbort ==
    ((nrows > 0 \/ pc = "raised") /\ HasBadIntArg(record)) =>
        /\ pc = "loop"
        /\ row.file_name = PyStr("__unknown__")
        /\ row.error # None

(***************************************************************************)
(* C10: a record whose args_to_strs() raises UnicodeDecodeError or         *)
(* AttributeError is still reported, with the six placeholder arguments,   *)
(* error 1, and file, offset and io volume None; it changes none of the    *)
(* three tables, whatever its function name, and the loop goes on.         *)
(***************************************************************************)
C10_Step ==
    record'.decode \in {"UnicodeDecodeError", "AttributeError"} =>
        /\ Appends
        /\ pc' = "loop"
        /\ row'.function_name = NameOf(record')
        /\ row'.args = <<"None", "None", "None", "None", "None", "None">>
        /\ row'.error = PyInt(1)
        /\ row'.file_name = None
        /\ row'.offset = None
        /\ row'.io_volume = None
        /\ fd_to_filenames' = fd_to_filenames
        /\ fd_offsets' = fd_offsets
        /\ end_of_files' = end_of_files

C10_DecodeFailure == [][C10_Step]_vars

\* an open returning 3 whose arguments did not decode has been reported as
\* the third row, with the error flag, and has bound nothing
C10_Witness ==
    /\ pc = "loop"
    /\ nrows = 3
    /\ record.decode = "UnicodeDecodeError"
    /\ NameOf(record) = "open"
    /\ record.res = 3
    /\ row.error = PyInt(1)
    /\ row.file_name = None
    /\ 3 \notin DOMAIN fd_to_filenames[record.rank]
    /\ \A f \in DOMAIN end_of_files : f \in {"stdin", "stdout", "stderr"}

(***************************************************************************)
(* C11: after any sequence of replayed records, the offset of every open   *)
(* descriptor of every rank is non-negative.  A seek with whence 0 stores  *)
(* its argument unchecked, so this does not hold.                          *)
(***************************************************************************)
C11_OffsetsNonNegative ==
    pc = "loop" =>
        \A rank \in Ranks : \A d \in DOMAIN fd_offsets[rank] : fd_offsets[rank][d] >= 0

(***************************************************************************)
(* C12: a seek on an open descriptor with whence 1 (target = offset +      *)
(* delta) or whence 2 (target = end-of-file + delta).  A negative target:  *)
(* the row carries 'Error: seek beyond start of file' and the offset is    *)
(* unchanged.  A target above the end-of-file: the row carries 'Warning:   *)
(* seek beyond end of file' and the offset is the target.  Otherwise the   *)
(* offset is the target and the row carries no error.                      *)
(***************************************************************************)
C12_Step ==
    LET rcd == record'
        r == rcd.rank
    IN  ( /\ BranchOf(rcd) = "seek"
          /\ Appends
          /\ FdOf(rcd) \in DOMAIN fd_to_filenames[r]
          /\ int(rcd.args[3]) \in {1, 2} ) =>
            LET d == FdOf(rcd)
                E == end_of_files[fd_to_filenames[r][d]]
                base == IF int(rcd.args[3]) = 1 THEN fd_offsets[r][d] ELSE E
                target == base + int(rcd.args[2])
            IN  /\ target < 0 =>
                    /\ row'.error = PyStr("Error: seek beyond start of file")
                    /\ fd_offsets'[r][d] = fd_offsets[r][d]
                /\ target > E =>
                    /\ row'.error = PyStr("Warning: seek beyond end of file")
                    /\ fd_offsets'[r][d] = target
                /\ (target >= 0 /\ target <= E) =>
                    /\ row'.error = None
                    /\ fd_offsets'[r][d] = target
                /\ end_of_files' = end_of_files

C12_SeekCurEndPolicy == [][C12_Step]_vars

\* after a write of 2 on descriptor 1 and a seek to 1, a seek by -1 from
\* the end-of-file 2 with whence 2 has put the descriptor back at 1
C12_Witness ==
    /\ pc = "loop"
    /\ nrows = 3
    /\ Calls(record, "lseek")
    /\ record.args = <<"1", "-1", "2">>
    /\ row.error = None
    /\ end_of_files["stdout"] = 2
    /\ fd_offsets[record.rank][1] = 1

\* a seek by -1 from offset 0 with whence 1 has been refused
C12_WitnessBeforeStart ==
    /\ pc = "loop"
    /\ nrows > 0
    /\ Calls(record, "lseek")
    /\ record.args = <<"1", "-1", "1">>
    /\ row.error = PyStr("Error: seek beyond start of file")
    /\ fd_offsets[record.rank][1] = 0

(***************************************************************************)
(* C13, as stated: after every replayed record the end-of-file of a file   *)
(* is the largest offset any descriptor bound to it has reached; this      *)
(* formula states what the claim draws from it, that no open descriptor's  *)
(* offset exceeds the end-of-file of its file.  A seek past the end moves  *)
(* the descriptor and leaves the end-of-file, so this does not hold.       *)
(***************************************************************************)
C13_OffsetWithinEof ==
    pc = "loop" =>
        \A rank \in Ranks : \A d \in DOMAIN fd_offsets[rank] :
            fd_offsets[rank][d] <= end_of_files[fd_to_filenames[rank][d]]

(***************************************************************************)
(* C13, amended: after every replayed record the end-of-file of a file is  *)
(* the larger of 0 and the largest end position, offset + io volume, of    *)
(* the transfers reported on it so far, and 0 when there is none: a        *)
(* transfer that ends before the start of the file leaves it alone.  Seeks *)
(* and opens never change it, so a descriptor can stand past it.           *)
(***************************************************************************)
C13_EofIsMaxTransferEnd ==
    pc = "loop" =>
        /\ DOMAIN h_max_end \subseteq DOMAIN end_of_files
        /\ \A f \in DOMAIN end_of_files :
              end_of_files[f] = IF f \in DOMAIN h_max_end THEN max(0, h_max_end[f]) ELSE 0

\* a pwrite of 2 at offset -5 on descriptor 1 ends at -3 and leaves the
\* end-of-file of stdout at 0; a seek to one past the end then puts the
\* descriptor at 1, above the end-of-file
C13_Witness ==
    /\ pc = "loop"
    /\ nrows >= 2
    /\ Calls(record, "lseek")
    /\ record.args = <<"1", "1", "2">>
    /\ "stdout" \in DOMAIN h_max_end
    /\ h_max_end["stdout"] = 0 - 3
    /\ end_of_files["stdout"] = 0
    /\ 1 \in DOMAIN fd_offsets[record.rank]
    /\ fd_offsets[record.rank][1] = 1

\* a write of 2 on descriptor 1, then a seek one past the end: the
\* descriptor is at 3 and the end-of-file of stdout is still 2
C13_WitnessPastEnd ==
    /\ pc = "loop"
    /\ nrows >= 2
    /\ Calls(record, "lseek")
    /\ record.args = <<"1", "1", "2">>
    /\ "stdout" \in DOMAIN h_max_end
    /\ h_max_end["stdout"] = 2
    /\ end_of_files["stdout"] = 2
    /\ fd_offsets[record.rank][1] = 3

(***************************************************************************)
(* C14: replaying a record of rank r changes at most the binding and the   *)
(* offset of the one descriptor the record names on rank r: its return     *)
(* value for fdopen, fopen and open, its descriptor argument for the other *)
(* branches.  Every other descriptor of rank r, and every descriptor of    *)
(* every other rank, keeps its binding and its offset, or stays unbound.   *)
(***************************************************************************)
\* the descriptor a record names, as a set: empty when it names none
NamedDescriptor(rcd) ==
    LET b == BranchOf(rcd)
    IN  IF b \in {"fdopen", "fopen", "open"} THEN {rcd.res}
        ELSE IF /\ b \in DescriptorBranches
                /\ FdArgIndex(b) < Len(rcd.args)
                /\ IsIntLiteral(rcd.args[FdArgIndex(b) + 1])
             THEN {FdOf(rcd)}
        ELSE {}

\* the entry of descriptor d in a table: <<>> when d is not in it
Entry(table, d) == IF d \in DOMAIN table THEN <<table[d]>> ELSE <<>>

C14_Step ==
    \A rank \in Ranks :
        \A d \in DOMAIN fd_to_filenames[rank] \cup DOMAIN fd_to_filenames'[rank]
                 \cup DOMAIN fd_offsets[rank] \cup DOMAIN fd_offsets'[rank] :
            (rank # record'.rank \/ d \notin NamedDescriptor(record')) =>
                /\ Entry(fd_to_filenames'[rank], d) = Entry(fd_to_filenames[rank], d)
                /\ Entry(fd_offsets'[rank], d) = Entry(fd_offsets[rank], d)

C14_OneDescriptorChanges == [][C14_Step]_vars

\* descriptors 1 and 3 of a rank are both bound to stdout, and a write of
\* 2 on descriptor 3 has moved 3 and left 1 at offset 0
C14_Witness ==
    /\ pc = "loop"
    /\ nrows >= 2
    /\ Calls(record, "write")
    /\ record.args = <<"3", "buf", "2">>
    /\ 3 \in DOMAIN fd_to_filenames[record.rank]
    /\ 1 \in DOMAIN fd_to_filenames[record.rank]
    /\ fd_to_filenames[record.rank][3] = "stdout"
    /\ fd_to_filenames[record.rank][1] = "stdout"
    /\ fd_offsets[record.rank][3] = 2
    /\ fd_offsets[record.rank][1] = 0
    /\ row.file_name = PyStr("stdout")

(***************************************************************************)
(* C15: the three classification columns of a row are a function of the    *)
(* function name alone.  function_type is 'I/O' for a name of the POSIX,   *)
(* MPI-IO or HDF5 table, else 'communication' for a name of the MPI        *)
(* communication table, else 'compute'.  I/O_type is 'write' for a name    *)
(* that contains "write", else 'read' for one that contains "read", else   *)
(* 'meta' for a name of one of the three I/O tables, else 'not I/O'.       *)
(* I/O_interface is 'POSIX', 'MPIIO' or 'HDF5' by the table that holds the *)
(* name, else 'not I/O'.  This holds of every row, whatever the tables,    *)
(* the arguments and the outcome of decoding were.                         *)
(***************************************************************************)
\* the I/O tables that hold a name, by the interface they stand for
InterfacesOf(name) ==
    {"POSIX" : x \in {name} \cap Posix_IO_functions}
    \cup {"MPIIO" : x \in {name} \cap MPI_IO_functions}
    \cup {"HDF5" : x \in {name} \cap HDF5_IO_functions}

C15_Category(name) ==
    CASE InterfacesOf(name) # {} -> "I/O"
      [] InterfacesOf(name) = {} /\ name \in MPI_communication_functions -> "communication"
      [] OTHER -> "compute"

C15_IOType(name) ==
    CASE In("write", name) -> "write"
      [] ~In("write", name) /\ In("read", name) -> "read"
      [] ~In("write", name) /\ ~In("read", name) /\ InterfacesOf(name) # {} -> "meta"
      [] OTHER -> "not I/O"

C15_Interface(name) ==
    CASE "POSIX" \in InterfacesOf(name) -> "POSIX"
      [] "POSIX" \notin InterfacesOf(name) /\ "MPIIO" \in InterfacesOf(name) -> "MPIIO"
      [] InterfacesOf(name) = {"HDF5"} -> "HDF5"
      [] OTHER -> "not I/O"

C15_Classification ==
    (pc = "loop" /\ nrows > 0) =>
        /\ row.function_name = NameOf(record)
        /\ row.function_type = C15_Category(row.function_name)
        /\ row.IO_type = C15_IOType(row.function_name)
        /\ row.IO_interface = C15_Interface(row.function_name)

\* the row of an MPI_Barrier, after rows of other names: communication,
\* not I/O, not I/O
C15_Witness ==
    /\ pc = "loop"
    /\ nrows = 3
    /\ row.function_name = "MPI_Barrier"
    /\ row.function_type = "communication"
    /\ row.IO_type = "not I/O"
    /\ row.IO_interface = "not I/O"

(***************************************************************************)
(* C16: a function name that is in none of the four tables is classified   *)
(* 'compute', 'not I/O', 'not I/O', also when it contains "read" or        *)
(* "write".  I/O_type is tested on the name before the tables are looked   *)
(* at, so a name that contains "read" gets 'read': this does not hold.     *)
(***************************************************************************)
C16_UnlistedIsCompute ==
    ( /\ pc = "loop"
      /\ nrows > 0
      /\ row.function_name \notin Posix_IO_functions \cup MPI_IO_functions
                                  \cup MPI_communication_functions \cup HDF5_IO_functions ) =>
        /\ row.function_type = "compute"
        /\ row.IO_type = "not I/O"
        /\ row.IO_interface = "not I/O"

(***************************************************************************)
(* C17, C18: the methods of the returned IOFrame.                          *)
(***************************************************************************)
\* the rows of a frame the reader classified 'I/O'
C17_IORows(rows) == SelectSeq(rows, LAMBDA x : x.function_type = "I/O")

\* C17: percentage() with its default arguments returns the sum of the time
\* of the rows classified 'I/O' divided by the sum of the run times of the
\* metadata, so a frame with an 'I/O' row of positive time yields a positive
\* value.
C17_PercentageSelectsIO ==
    (pc = "returned" /\ result.call = "percentage" /\ result.function_type = "io") =>
        /\ result.value = <<ColumnSum(C17_IORows(self_dataframe.rows), "time"),
                            ColumnSum(result.metadata.rows, "time")>>
        /\ (\E i \in DOMAIN self_dataframe.rows :
                /\ self_dataframe.rows[i].function_type = "I/O"
                /\ self_dataframe.rows[i].time > 0)
            => result.value[1] > 0

\* the rows of the frame that satisfy the function filter was called with
C18_Satisfying == SelectSeq(self_dataframe.rows, LAMBDA x : Apply(result.my_lambda, x))

C18_Step ==
    (pc = "returned" /\ pc' = "returned" /\ result'.call = "filter") =>
        /\ result'.value.dataframe.rows = C18_Satisfying'
        /\ result'.value.dataframe.index = [k \in 1..Len(C18_Satisfying') |-> k - 1]
        /\ result'.value.dataframe.columns = self_dataframe.columns
        /\ result'.value.metadata = result'.metadata
        /\ self_dataframe' = self_dataframe

\* C18: filter returns a frame whose rows are exactly the rows of the
\* original that satisfy the function, in their order and indexed from 0,
\* with the same metadata, and leaves the rows of the original unchanged.
C18_FilterKeepsSatisfying == [][C18_Step]_vars

\* a filter has dropped the first row of the frame and kept a later one
C18_Witness ==
    /\ pc = "returned"
    /\ result.call = "filter"
    /\ Len(self_dataframe.rows) >= 2
    /\ ~Apply(result.my_lambda, self_dataframe.rows[1])
    /\ Len(result.value.dataframe.rows) >= 1

(***************************************************************************)
(* C19: a pwrite or pread on an open descriptor leaves every running       *)
(* offset and every binding as it was; its row reports the explicit offset *)
(* (4th argument) and the io volume (3rd argument); the end-of-file of the *)
(* descriptor's file becomes max(end-of-file, explicit offset + io volume) *)
(* and no other end-of-file changes.                                       *)
(***************************************************************************)
C19_Step ==
    LET rcd == record'
        r == rcd.rank
    IN  ( /\ BranchOf(rcd) = "pwrite_pread"
          /\ Appends
          /\ FdOf(rcd) \in DOMAIN fd_to_filenames[r] ) =>
            LET d == FdOf(rcd)
                f == fd_to_filenames[r][d]
                io_size == int(rcd.args[3])
                at == int(rcd.args[4])
            IN  /\ fd_offsets' = fd_offsets
                /\ fd_to_filenames' = fd_to_filenames
                /\ row'.offset = PyInt(at)
                /\ row'.io_volume = PyInt(io_size)
                /\ row'.file_name = PyStr(f)
                /\ end_of_files' = DictSet(end_of_files, f, max(end_of_files[f], at + io_size))

C19_PositionalTransferKeepsOffset == [][C19_Step]_vars

\* after a write of 2 on descriptor 1, a pwrite of 2 at 1 has left the
\* descriptor at 2 and moved the end-of-file to 3
C19_Witness ==
    /\ pc = "loop"
    /\ nrows >= 2
    /\ Calls(record, "pwrite")
    /\ record.args = <<"1", "buf", "2", "1">>
    /\ row.offset = PyInt(1)
    /\ 1 \in DOMAIN fd_offsets[record.rank]
    /\ fd_offsets[record.rank][1] = 2
    /\ end_of_files["stdout"] = 3

(***************************************************************************)
(* C20, as stated: a pwrite or pread on an open descriptor with a negative *)
(* explicit offset is annotated 'Error: pwrite or pread beyond start of    *)
(* file' and is not applied: the end-of-file of the descriptor's file is   *)
(* the same after the record as before it.                                 *)
(***************************************************************************)
C20_Step ==
    LET rcd == record'
        r == rcd.rank
    IN  ( /\ BranchOf(rcd) = "pwrite_pread"
          /\ Appends
          /\ FdOf(rcd) \in DOMAIN fd_to_filenames[r]
          /\ int(rcd.args[4]) < 0 ) =>
            /\ row'.error = PyStr("Error: pwrite or pread beyond start of file")
            /\ end_of_files' = end_of_files

C20_NegativeOffsetNotApplied == [][C20_Step]_vars

(***************************************************************************)
(* C21: an fdopen whose source descriptor (first argument) is open binds   *)
(* the descriptor it returns to the file of the source, at offset 0        *)
(* whatever the offset of the source is, leaves the binding and the offset *)
(* of the source as they were, and its row reports the file of the source. *)
(***************************************************************************)
C21_Step ==
    LET rcd == record'
        r == rcd.rank
    IN  ( /\ BranchOf(rcd) = "fdopen"
          /\ Appends
          /\ int(rcd.args[1]) \in DOMAIN fd_to_filenames[r] ) =>
            LET old_fd == int(rcd.args[1])
                fd == rcd.res
            IN  /\ fd \in DOMAIN fd_to_filenames'[r]
                /\ fd \in DOMAIN fd_offsets'[r]
                /\ fd_to_filenames'[r][fd] = fd_to_filenames[r][old_fd]
                /\ fd_offsets'[r][fd] = 0
                /\ fd_to_filenames'[r][old_fd] = fd_to_filenames[r][old_fd]
                /\ fd_offsets'[r][old_fd] = fd_offsets[r][old_fd]
                /\ row'.file_name = PyStr(fd_to_filenames[r][old_fd])

C21_FdopenDuplicates == [][C21_Step]_vars

\* after a write has moved descriptor 1 off 0, an fdopen of 1 has bound
\* descriptor 3 to stdout at offset 0
C21_Witness ==
    /\ pc = "loop"
    /\ nrows >= 2
    /\ Calls(record, "fdopen")
    /\ record.args = <<"1", "w">>
    /\ row.file_name = PyStr("stdout")
    /\ 1 \in DOMAIN fd_offsets[record.rank]
    /\ fd_offsets[record.rank][1] > 0
    /\ 3 \in DOMAIN fd_offsets[record.rank]
    /\ fd_offsets[record.rank][3] = 0
    /\ fd_to_filenames[record.rank][3] = "stdout"

(***************************************************************************)
(* C22: a record that takes a descriptor-not-found path (an fdopen whose   *)
(* source is not open; a seek, close, sync, fwrite/fread, writev/readv,    *)
(* pwrite/pread, write/read or fprintf on a descriptor that is not open)   *)
(* leaves the descriptor tables of every rank and the end-of-file table    *)
(* exactly as they were; its row names the file '__unknown__' and carries  *)
(* an error, and the loop goes on.                                         *)
(***************************************************************************)
C22_Step ==
    LET rcd == record'
        r == rcd.rank
    IN  ( /\ BranchOf(rcd) \in DescriptorBranches \cup {"fdopen"}
          /\ Appends
          /\ FdOf(rcd) \notin DOMAIN fd_to_filenames[r] ) =>
            /\ fd_to_filenames' = fd_to_filenames
            /\ fd_offsets' = fd_offsets
            /\ end_of_files' = end_of_files
            /\ row'.file_name = PyStr("__unknown__")
            /\ row'.error # None
            /\ pc' = "loop"

C22_NotFoundChangesNothing == [][C22_Step]_vars

\* an fdopen of descriptor 9, which is not open, has bound nothing: the
\* descriptor 3 it returned is not in the table
C22_Witness ==
    /\ pc = "loop"
    /\ nrows >= 2
    /\ Calls(record, "fdopen")
    /\ record.args = <<"9", "w">>
    /\ row.file_name = PyStr("__unknown__")
    /\ 3 \notin DOMAIN fd_to_filenames[record.rank]
    /\ 3 \notin DOMAIN fd_offsets[record.rank]

(***************************************************************************)
(* C23: each record is handled by one operation, chosen by the keywords    *)
(* its function name contains.                                             *)
(***************************************************************************)
\* the operation of a name, by the first keyword it contains in the order
\* fdopen, fopen/open, fwrite/fread, seek, close, sync, writev/readv,
\* pwrite/pread, write/read, fprintf
C23_FirstKeyword(func_name) ==
    IF In("fdopen", func_name) THEN "fdopen"
    ELSE IF In("fopen", func_name) \/ In("open", func_name) THEN "open"
    ELSE IF In("fwrite", func_name) \/ In("fread", func_name) THEN "fwrite_fread"
    ELSE IF In("seek", func_name) THEN "seek"
    ELSE IF In("close", func_name) THEN "close"
    ELSE IF In("sync", func_name) THEN "sync"
    ELSE IF In("writev", func_name) \/ In("readv", func_name) THEN "writev_readv"
    ELSE IF In("pwrite", func_name) \/ In("pread", func_name) THEN "pwrite_pread"
    ELSE IF In("write", func_name) \/ In("read", func_name) THEN "write_read"
    ELSE IF In("fprintf", func_name) THEN "fprintf"
    ELSE "none"

\* the operation of a name: none when it contains "MPI" or "H5", otherwise
\* by the first keyword it contains in the order fdopen, fopen/open, seek,
\* close, sync, fwrite/fread, writev/readv, pwrite/pread, write/read, fprintf
C23_Operation(func_name) ==
    IF In("MPI", func_name) \/ In("H5", func_name) THEN "none"
    ELSE IF In("fdopen", func_name) THEN "fdopen"
    ELSE IF In("fopen", func_name) \/ In("open", func_name) THEN "open"
    ELSE IF In("seek", func_name) THEN "seek"
    ELSE IF In("close", func_name) THEN "close"
    ELSE IF In("sync", func_name) THEN "sync"
    ELSE IF In("fwrite", func_name) \/ In("fread", func_name) THEN "fwrite_fread"
    ELSE IF In("writev", func_name) \/ In("readv", func_name) THEN "writev_readv"
    ELSE IF In("pwrite", func_name) \/ In("pread", func_name) THEN "pwrite_pread"
    ELSE IF In("write", func_name) \/ In("read", func_name) THEN "write_read"
    ELSE IF In("fprintf", func_name) THEN "fprintf"
    ELSE "none"

\* the file a descriptor of the rank resolves to before the step
C23_FileOf(r, d) ==
    IF d \in DOMAIN fd_to_filenames[r]
    THEN PyStr(fd_to_filenames[r][d])
    ELSE PyStr("__unknown__")

\* the offset a transfer at the running offset of a descriptor reports
C23_RunningOffset(r, d) ==
    IF d \in DOMAIN fd_offsets[r] THEN PyInt(fd_offsets[r][d]) ELSE PyInt(-1)

\* the step has handled the record by the operation op, as its row shows
C23_HandledAs(op, rcd) ==
    LET r == rcd.rank
        a == rcd.args
    IN  IF op = "none"
        THEN /\ row'.file_name = None
             /\ row'.io_volume = None
             /\ row'.offset = None
             /\ fd_to_filenames' = fd_to_filenames
             /\ fd_offsets' = fd_offsets
             /\ end_of_files' = end_of_files
        ELSE
        /\ row'.file_name # None
        /\ CASE op = "fdopen" ->
                    /\ row'.file_name = C23_FileOf(r, int(a[1]))
                    /\ row'.io_volume = None
             [] op = "open" ->
                    /\ row'.file_name = PyStr(a[1])
                    /\ row'.io_volume = None
             [] op = "fwrite_fread" ->
                    /\ row'.file_name = C23_FileOf(r, int(a[4]))
                    /\ row'.io_volume = PyInt(int(a[2]) * int(a[3]))
                    /\ row'.offset = C23_RunningOffset(r, int(a[4]))
             [] op \in {"seek", "close", "sync"} ->
                    /\ row'.file_name = C23_FileOf(r, int(a[1]))
                    /\ row'.io_volume = None
             [] op = "writev_readv" ->
                    /\ row'.file_name = C23_FileOf(r, int(a[1]))
                    /\ row'.io_volume = PyInt(int(a[2]))
                    /\ row'.offset = C23_RunningOffset(r, int(a[1]))
             [] op = "pwrite_pread" ->
                    /\ row'.file_name = C23_FileOf(r, int(a[1]))
                    /\ row'.io_volume = PyInt(int(a[3]))
                    /\ row'.offset = PyInt(int(a[4]))
             [] op = "write_read" ->
                    /\ row'.file_name = C23_FileOf(r, int(a[1]))
                    /\ row'.io_volume = PyInt(int(a[3]))
                    /\ row'.offset = C23_RunningOffset(r, int(a[1]))
             [] op = "fprintf" ->
                    /\ row'.file_name = C23_FileOf(r, int(a[1]))
                    /\ row'.io_volume = PyInt(int(a[2]))
                    /\ row'.offset = C23_RunningOffset(r, int(a[1]))

C23_StepAsStated ==
    (record'.decode = "" /\ Appends) =>
        C23_HandledAs(C23_FirstKeyword(NameOf(record')), record')

\* C23, as stated: every record whose iteration appends a row is handled by
\* the operation of the first keyword its name contains, in the order
\* fdopen, fopen/open, fwrite/fread, seek, close, sync, writev/readv,
\* pwrite/pread, write/read, fprintf; a name with none of the keywords
\* touches no table and has file null.  MPI_File_open contains "open" and
\* is handled by no operation, so this does not hold.
C23_FirstKeywordDispatch == [][C23_StepAsStated]_vars

C23_Step ==
    (record'.decode = "" /\ Appends) =>
        C23_HandledAs(C23_Operation(NameOf(record')), record')

\* C23, amended: every record whose arguments decode and whose iteration
\* appends a row is handled by exactly one operation: none when its name
\* contains "MPI" or "H5", otherwise the one of the first keyword its name
\* contains in the order fdopen, fopen/open, seek, close, sync, fwrite/fread,
\* writev/readv, pwrite/pread, write/read, fprintf.  So fdopen reports the file of its source and never its first
\* argument as a path, fwrite/fread report the volume 2nd x 3rd argument on
\* the descriptor of the 4th argument, writev/readv the volume of the 2nd
\* argument, pwrite/pread the offset of the 4th argument, and a name with
\* no operation touches no table and has file, offset and io volume null.
C23_OneOperationPerRecord == [][C23_Step]_vars

\* an fwrite of 2 x 1 bytes on descriptor 3, open on /a, has been replayed
\* as a buffered transfer
C23_Witness ==
    /\ pc = "loop"
    /\ nrows >= 2
    /\ Calls(record, "fwrite")
    /\ record.args = <<"buf", "2", "1", "3">>
    /\ row.file_name = PyStr("/a")
    /\ row.io_volume = PyInt(2)
    /\ row.offset = PyInt(0)

(***************************************************************************)
(* C24: a record whose function name contains "MPI" or "H5" changes no     *)
(* descriptor table and no end-of-file entry, and its row has file, offset *)
(* and io volume null and no error, even when the name also contains open, *)
(* close, seek, sync, read or write; its classification columns are those  *)
(* of its name.                                                            *)
(***************************************************************************)
C24_Step ==
    LET rcd == record'
        func_name == NameOf(rcd)
    IN  ( /\ Appends
          /\ (In("MPI", func_name) \/ In("H5", func_name)) ) =>
            /\ fd_to_filenames' = fd_to_filenames
            /\ fd_offsets' = fd_offsets
            /\ end_of_files' = end_of_files
            /\ row'.file_name = None
            /\ row'.offset = None
            /\ row'.io_volume = None
            /\ row'.function_type = function_type(func_name)
            /\ row'.IO_type = IO_type(func_name)
            /\ row'.IO_interface = IO_interface(func_name)

C24_MpiH5TouchNothing == [][C24_Step]_vars

\* an H5Dread naming descriptor 1 has been replayed after a write on
\* descriptor 1, and has left the descriptor where the write put it
C24_Witness ==
    /\ pc = "loop"
    /\ nrows >= 2
    /\ Calls(record, "H5Dread")
    /\ record.args = <<"1", "buf", "2">>
    /\ row.file_name = None
    /\ row.IO_type = "read"
    /\ 1 \in DOMAIN fd_offsets[record.rank]
    /\ fd_offsets[record.rank][1] = 1
    /\ end_of_files["stdout"] = 1

(***************************************************************************)
(* C25: read() replays the records of all ranks in global tstart order     *)
(* against one end-of-file table.  (1) The rows are in non-decreasing      *)
(* tstart whatever their ranks, and when a row is appended every raw       *)
(* record of every rank with a smaller tstart has been replayed before it. *)
(* (2) An append-mode open of a file starts at, and a whence-2 seek on a   *)
(* descriptor bound to the file counts from, the larger of 0 and the       *)
(* largest end position of the transfers the rows of all ranks appended so *)
(* far report on the file.                                                 *)
(***************************************************************************)
\* the raw records of all ranks, as references
C25_Refs == {ref \in Ranks \X (1..MaxTraceLen) : ref[2] <= Len(records[ref[1]])}

\* the end positions of the transfers the rows appended so far report on
\* the file, whatever their rank
C25_Ends(f) ==
    {records_as_dict[i].offset[2] + records_as_dict[i].io_volume[2] :
        i \in {j \in 1..Len(records_as_dict) :
                 /\ IsTransferRow(records_as_dict[j])
                 /\ records_as_dict[j].file_name = PyStr(f)}}

\* the end-of-file of the file by the rows appended so far
C25_End(f) == CHOOSE e \in C25_Ends(f) \cup {0} : \A x \in C25_Ends(f) \cup {0} : x <= e

C25_GlobalOrder ==
    pc \in {"loop", "raised", "returned"} =>
        /\ \A i, j \in 1..Len(records_as_dict) :
              i < j => records_as_dict[i].tstart <= records_as_dict[j].tstart
        /\ \A i \in 1..Len(records_as_dict) : \A ref \in C25_Refs :
              Deref(records, ref).tstart < records_as_dict[i].tstart =>
                  \E j \in 1..(i - 1) : all_records[j] = ref

C25_Step ==
    LET rcd == record'
        r == rcd.rank
    IN  /\ C25_GlobalOrder'
        /\ (pc = "loop" /\ Appends /\ IsAppendOpen(rcd)) =>
              /\ rcd.res \in DOMAIN fd_offsets'[r]
              /\ fd_offsets'[r][rcd.res] = C25_End(rcd.args[1])
        /\ ( /\ pc = "loop"
             /\ Appends
             /\ BranchOf(rcd) = "seek"
             /\ FdOf(rcd) \in DOMAIN fd_to_filenames[r]
             /\ int(rcd.args[3]) = 2 ) =>
              LET d == FdOf(rcd)
                  target == C25_End(fd_to_filenames[r][d]) + int(rcd.args[2])
              IN  /\ target >= 0 => fd_offsets'[r][d] = target
                  /\ (target >= 0 /\ int(rcd.args[2]) <= 0) => row'.error = None
                  /\ target < 0 =>
                        /\ row'.error = PyStr("Error: seek beyond start of file")
                        /\ fd_offsets'[r][d] = fd_offsets[r][d]

C25_GlobalOrderSharedEndOfFile == [][C25_Step]_vars

\* rank 1 opened /a and wrote 2 bytes to it at time 0; rank 0, whose only
\* record is collected first and is replayed last, opened /a in append
\* mode at time 1 and starts at 2
C25_Witness ==
    /\ pc = "returned"
    /\ Len(records_as_dict) = 3
    /\ all_records = <<<<1, 1>>, <<1, 2>>, <<0, 1>>>>
    /\ records_as_dict[2].function_name = "write"
    /\ records_as_dict[2].file_name = PyStr("/a")
    /\ records_as_dict[2].tstart = 0
    /\ records_as_dict[3].function_name = "open"
    /\ records_as_dict[3].args = <<"/a", "2">>
    /\ records_as_dict[3].tstart = 1
    /\ 3 \in DOMAIN fd_offsets[0]
    /\ fd_offsets[0][3] = 2
    /\ end_of_files["/a"] = 2

\* rank 1 wrote 1 byte to stdout at time 0; rank 0, whose only record is
\* collected first and is replayed last, sought 1 before the end of stdout
\* at time 1, without error, and stands at 0
C25_WitnessSeek ==
    /\ pc = "returned"
    /\ Len(records_as_dict) = 2
    /\ all_records = <<<<1, 1>>, <<0, 1>>>>
    /\ records_as_dict[1].function_name = "write"
    /\ records_as_dict[1].file_name = PyStr("stdout")
    /\ records_as_dict[1].tstart = 0
    /\ records_as_dict[2].function_name = "lseek"
    /\ records_as_dict[2].tstart = 1
    /\ records_as_dict[2].error = None
    /\ fd_offsets[0][1] = 0
    /\ end_of_files["stdout"] = 1

(***************************************************************************)
(* C26: once a file has an end-of-file entry, no record removes the entry  *)
(* or lowers its value: an fdopen, fopen, open, seek, close or sync leaves *)
(* the value of every entry as it was, and every other record keeps or     *)
(* raises it.                                                              *)
(***************************************************************************)
C26_Step ==
    \A f \in DOMAIN end_of_files :
        /\ f \in DOMAIN end_of_files'
        /\ end_of_files'[f] >= end_of_files[f]
        /\ BranchOf(record') \in {"fdopen", "fopen", "open", "seek", "close", "sync"} =>
              end_of_files'[f] = end_of_files[f]

C26_EndOfFilePersists == [][C26_Step]_vars

\* /a was opened and extended to 2, and the close of its only descriptor
\* has left its end-of-file at 2
C26_Witness ==
    /\ pc = "loop"
    /\ nrows = 3
    /\ Calls(record, "close")
    /\ record.args = <<"3">>
    /\ row.file_name = PyStr("/a")
    /\ 3 \notin DOMAIN fd_to_filenames[record.rank]
    /\ "/a" \in DOMAIN end_of_files
    /\ end_of_files["/a"] = 2

(***************************************************************************)
(* C27, as stated: function_count_by_library leaves the frame of the       *)
(* IOFrame as it found it: after the call self.dataframe has the columns   *)
(* it had when read() returned it, the column 'library' is gone.  The drop *)
(* of the column is not in place, so this does not hold.                   *)
(***************************************************************************)
C27_ColumnsKept ==
    (pc = "returned" /\ result.call = "function_count_by_library") =>
        /\ self_dataframe.columns = RecordColumns
        /\ \A k \in 1..Len(self_dataframe.rows) :
              DOMAIN self_dataframe.rows[k] = RecordColumns

(***************************************************************************)
(* C28: after every replayed record, on every rank the descriptors that    *)
(* have a file are the descriptors that have an offset, and every file a   *)
(* descriptor is bound to has an end-of-file entry.                        *)
(***************************************************************************)
C28_TablesAgree ==
    \A rank \in Ranks :
        /\ DOMAIN fd_to_filenames[rank] = DOMAIN fd_offsets[rank]
        /\ \A d \in DOMAIN fd_to_filenames[rank] :
              fd_to_filenames[rank][d] \in DOMAIN end_of_files

\* rank 0 has opened /a on descriptor 3 and closed descriptor 1
C28_Witness ==
    /\ pc = "loop"
    /\ nrows >= 2
    /\ DOMAIN fd_to_filenames[0] = {0, 2, 3}
    /\ DOMAIN fd_offsets[0] = {0, 2, 3}
    /\ fd_to_filenames[0][3] = "/a"
    /\ "/a" \in DOMAIN end_of_files

(***************************************************************************)
(* C29, as stated: descriptor -1 is never bound in the table of any rank:  *)
(* an open, fopen or fdopen that returns -1 creates no entry.  The open    *)
(* branches bind whatever the call returned, so this does not hold.        *)
(***************************************************************************)
C29_MinusOneNeverBound ==
    \A rank \in Ranks :
        /\ -1 \notin DOMAIN fd_to_filenames[rank]
        /\ -1 \notin DOMAIN fd_offsets[rank]

(***************************************************************************)
(* C30, as stated: the offset of the row of a seek on an open descriptor   *)
(* is the offset of the descriptor once the seek is replayed, for whence   *)
(* 0, 1 and 2 alike.  The row carries the second argument of the seek, so  *)
(* this does not hold for whence 1 and 2.                                  *)
(***************************************************************************)
C30_Step ==
    LET rcd == record'
        r == rcd.rank
    IN  ( /\ BranchOf(rcd) = "seek"
          /\ Appends
          /\ FdOf(rcd) \in DOMAIN fd_to_filenames[r]
          /\ int(rcd.args[3]) \in {0, 1, 2} ) =>
            row'.offset = PyInt(fd_offsets'[r][FdOf(rcd)])

C30_SeekRowReportsPosition == [][C30_Step]_vars

====
